---------------------------- MODULE Spec2Model ----------------------------
(***************************************************************************)
(* Audio-reactive video generator: the audio feature extractor             *)
(* (core/audio.py), the effect configuration and effect chain              *)
(* (core/effects.py), the frame renderer (core/renderer.py) and the render *)
(* loops of the command line (main.py) and the desktop GUI (gui.py).       *)
(*                                                                         *)
(* Numbers.  Python floats are modelled in fixed point: the value 1.0 is   *)
(* Unit, so an intensity of 0.35 is 350 and a scale factor of 1.08 is      *)
(* 1080.  Pixel counts (shake_max_pixels, radii, offsets) are plain        *)
(* integers.  Raw spectral magnitudes are integers in units of 1e-8, the   *)
(* resolution of the normaliser's silence guard.                           *)
(*                                                                         *)
(* Images.  An image is its size and the list of transforms applied to the *)
(* base picture, each transform a triple <<name, a, b>> of the step's name *)
(* and the two numbers that parameterise it.  A step that returns its      *)
(* input leaves the list unchanged.                                        *)
(***************************************************************************)
EXTENDS Integers, Sequences, FiniteSets, TLC

VARIABLES
  file,          \* the audio file on disk: [n, sr, stft] (decoded by librosa.load)
  fps,           \* AudioProcessor.fps
  y,             \* AudioProcessor.y: number of decoded samples, None before load()
  sr,            \* AudioProcessor.sr
  frame_count,   \* AudioProcessor.frame_count
  features,      \* AudioProcessor._features: <<>> (None) or an AudioFeatures record
  sessions,      \* render sessions: FrameRenderer / ImageEffectsProcessor objects
  rng,           \* the process-wide numpy random state (np.random)
  calls,         \* per session: the process_frame calls made, in order
  frames,        \* per session: the frames delivered to the consumer, in order
  steps,         \* per session: the images after each step of the last process_frame
  loop,          \* per session: the render loop driving it (kind, pc, i, progress)
  lookups,       \* the EffectConfig.from_preset calls made: <<name, result, frames so far>>
  gui,           \* AudioReactiveApp: current_preset and the effect variables
  app,           \* the run of the program: who calls the classes, how far it got, how it ended
  adjusted,      \* the _adjust_length calls made directly: [data, count, out]
  ui             \* AudioReactiveApp: is_rendering, the generate button, progress_queue, render threads

audioVars == <<file, fps, y, sr, frame_count, features>>
chainVars == <<sessions, rng, calls, frames, steps, loop>>
vars == <<file, fps, y, sr, frame_count, features,
          sessions, rng, calls, frames, steps, loop, lookups, gui, app,
          adjusted, ui>>

---------------------------------------------------------------------------
(* Fixed-point arithmetic                                                  *)

\* 1.0 in fixed point
Unit == 10 * 10 * 10

\* Python's None for the integer-valued fields
None == 0 - 1

Min(a, b) == IF a <= b THEN a ELSE b

Max(a, b) == IF a >= b THEN a ELSE b

Abs(a) == IF a >= 0 THEN a ELSE 0 - a

\* a * b of two fixed-point numbers
Mul(a, b) == (a * b) \div Unit

\* int(x): Python truncates toward zero; x is a fixed-point number
IntOf(x) == IF x >= 0 THEN x \div Unit ELSE 0 - ((0 - x) \div Unit)

\* math.ceil(a / b) for a >= 0, b > 0
CeilDiv(a, b) == (a + b - 1) \div b

\* np.min and np.max of a non-empty array
SeqMin(s) == CHOOSE m \in {s[i] : i \in 1..Len(s)} : \A i \in 1..Len(s) : m <= s[i]

SeqMax(s) == CHOOSE m \in {s[i] : i \in 1..Len(s)} : \A i \in 1..Len(s) : m >= s[i]

---------------------------------------------------------------------------
(* EffectConfig (core/effects.py)                                          *)

\* The eleven effects, by the keys of EffectConfig.to_dict
EffectKeys == {"scale", "shake", "glow", "saturation", "contrast", "brightness",
               "hue", "vignette", "chromatic", "blur", "warp"}

\* EffectConfig(): the dataclass defaults
EffectConfigDefault ==
  [ scale_enabled |-> TRUE,
    scale_intensity |-> 500,
    scale_min |-> 1000,
    scale_max |-> 1080,
    shake_enabled |-> TRUE,
    shake_intensity |-> 400,
    shake_max_pixels |-> 15,
    glow_enabled |-> TRUE,
    glow_intensity |-> 500,
    glow_radius_min |-> 0,
    glow_radius_max |-> 8,
    saturation_enabled |-> TRUE,
    saturation_intensity |-> 500,
    saturation_min |-> 900,
    saturation_max |-> 1400,
    contrast_enabled |-> TRUE,
    contrast_intensity |-> 400,
    contrast_min |-> 950,
    contrast_max |-> 1200,
    brightness_enabled |-> TRUE,
    brightness_intensity |-> 300,
    brightness_min |-> 950,
    brightness_max |-> 1150,
    hue_enabled |-> FALSE,
    hue_intensity |-> 300,
    hue_max_shift |-> 15000,
    vignette_enabled |-> TRUE,
    vignette_intensity |-> 500,
    vignette_min |-> 0,
    vignette_max |-> 400,
    chromatic_enabled |-> TRUE,
    chromatic_intensity |-> 400,
    chromatic_max_offset |-> 8,
    blur_enabled |-> FALSE,
    blur_intensity |-> 300,
    blur_max_radius |-> 3,
    warp_enabled |-> FALSE,
    warp_intensity |-> 300,
    warp_strength |-> 20 ]

Preset_subtle ==
  [ EffectConfigDefault EXCEPT
      !.scale_intensity = 300,
      !.scale_max = 1040,
      !.shake_intensity = 200,
      !.shake_max_pixels = 8,
      !.glow_intensity = 300,
      !.glow_radius_max = 4,
      !.saturation_intensity = 300,
      !.saturation_max = 1200,
      !.contrast_intensity = 200,
      !.contrast_max = 1100,
      !.brightness_intensity = 200,
      !.brightness_max = 1080,
      !.hue_enabled = FALSE,
      !.vignette_intensity = 300,
      !.vignette_max = 250,
      !.chromatic_enabled = FALSE,
      !.blur_enabled = FALSE,
      !.warp_enabled = FALSE ]

Preset_energetic ==
  [ EffectConfigDefault EXCEPT
      !.scale_intensity = 600,
      !.scale_max = 1100,
      !.shake_intensity = 500,
      !.shake_max_pixels = 18,
      !.glow_intensity = 600,
      !.glow_radius_max = 10,
      !.saturation_intensity = 600,
      !.saturation_max = 1500,
      !.contrast_intensity = 500,
      !.contrast_max = 1250,
      !.brightness_intensity = 400,
      !.brightness_max = 1200,
      !.hue_enabled = TRUE,
      !.hue_intensity = 300,
      !.vignette_intensity = 600,
      !.vignette_max = 450,
      !.chromatic_enabled = TRUE,
      !.chromatic_intensity = 500,
      !.blur_enabled = FALSE,
      !.warp_enabled = FALSE ]

Preset_aggressive ==
  [ EffectConfigDefault EXCEPT
      !.scale_intensity = 800,
      !.scale_max = 1150,
      !.shake_intensity = 700,
      !.shake_max_pixels = 25,
      !.glow_intensity = 800,
      !.glow_radius_max = 15,
      !.saturation_intensity = 800,
      !.saturation_max = 1700,
      !.contrast_intensity = 700,
      !.contrast_max = 1400,
      !.brightness_intensity = 600,
      !.brightness_max = 1300,
      !.hue_enabled = TRUE,
      !.hue_intensity = 500,
      !.hue_max_shift = 25000,
      !.vignette_intensity = 800,
      !.vignette_max = 600,
      !.chromatic_enabled = TRUE,
      !.chromatic_intensity = 700,
      !.chromatic_max_offset = 12,
      !.blur_enabled = TRUE,
      !.blur_intensity = 500,
      !.warp_enabled = TRUE,
      !.warp_intensity = 400 ]

Preset_cinematic ==
  [ EffectConfigDefault EXCEPT
      !.scale_intensity = 400,
      !.scale_max = 1060,
      !.shake_intensity = 250,
      !.shake_max_pixels = 10,
      !.glow_intensity = 500,
      !.glow_radius_max = 6,
      !.saturation_intensity = 400,
      !.saturation_min = 850,
      !.saturation_max = 1150,
      !.contrast_intensity = 500,
      !.contrast_min = 900,
      !.contrast_max = 1300,
      !.brightness_intensity = 350,
      !.brightness_min = 900,
      !.brightness_max = 1100,
      !.hue_enabled = FALSE,
      !.vignette_enabled = TRUE,
      !.vignette_intensity = 700,
      !.vignette_min = 150,
      !.vignette_max = 500,
      !.chromatic_enabled = TRUE,
      !.chromatic_intensity = 300,
      !.chromatic_max_offset = 5,
      !.blur_enabled = FALSE,
      !.warp_enabled = FALSE ]

Preset_dreamy ==
  [ EffectConfigDefault EXCEPT
      !.scale_intensity = 350,
      !.scale_max = 1050,
      !.shake_intensity = 150,
      !.shake_max_pixels = 6,
      !.glow_enabled = TRUE,
      !.glow_intensity = 750,
      !.glow_radius_max = 12,
      !.saturation_intensity = 500,
      !.saturation_min = 800,
      !.saturation_max = 1300,
      !.contrast_intensity = 300,
      !.contrast_min = 900,
      !.contrast_max = 1150,
      !.brightness_intensity = 400,
      !.brightness_min = 950,
      !.brightness_max = 1150,
      !.hue_enabled = TRUE,
      !.hue_intensity = 250,
      !.hue_max_shift = 12000,
      !.vignette_enabled = TRUE,
      !.vignette_intensity = 500,
      !.vignette_min = 100,
      !.vignette_max = 350,
      !.chromatic_enabled = TRUE,
      !.chromatic_intensity = 350,
      !.chromatic_max_offset = 6,
      !.blur_enabled = TRUE,
      !.blur_intensity = 200,
      !.blur_max_radius = 2,
      !.warp_enabled = FALSE ]

Preset_retro ==
  [ EffectConfigDefault EXCEPT
      !.scale_intensity = 400,
      !.scale_max = 1060,
      !.shake_intensity = 350,
      !.shake_max_pixels = 12,
      !.glow_enabled = TRUE,
      !.glow_intensity = 500,
      !.glow_radius_max = 8,
      !.saturation_intensity = 600,
      !.saturation_min = 1000,
      !.saturation_max = 1600,
      !.contrast_intensity = 550,
      !.contrast_min = 950,
      !.contrast_max = 1350,
      !.brightness_intensity = 350,
      !.brightness_max = 1150,
      !.hue_enabled = TRUE,
      !.hue_intensity = 400,
      !.hue_max_shift = 18000,
      !.vignette_enabled = TRUE,
      !.vignette_intensity = 650,
      !.vignette_min = 120,
      !.vignette_max = 450,
      !.chromatic_enabled = TRUE,
      !.chromatic_intensity = 600,
      !.chromatic_max_offset = 10,
      !.blur_enabled = FALSE,
      !.warp_enabled = TRUE,
      !.warp_intensity = 250,
      !.warp_strength = 15 ]

Preset_minimal ==
  [ EffectConfigDefault EXCEPT
      !.scale_enabled = TRUE,
      !.scale_intensity = 250,
      !.scale_max = 1030,
      !.shake_enabled = FALSE,
      !.glow_enabled = FALSE,
      !.saturation_enabled = FALSE,
      !.contrast_enabled = TRUE,
      !.contrast_intensity = 150,
      !.contrast_max = 1080,
      !.brightness_enabled = TRUE,
      !.brightness_intensity = 200,
      !.brightness_max = 1060,
      !.hue_enabled = FALSE,
      !.vignette_enabled = TRUE,
      !.vignette_intensity = 250,
      !.vignette_max = 200,
      !.chromatic_enabled = FALSE,
      !.blur_enabled = FALSE,
      !.warp_enabled = FALSE ]

Preset_psychedelic ==
  [ EffectConfigDefault EXCEPT
      !.scale_intensity = 700,
      !.scale_max = 1120,
      !.shake_intensity = 500,
      !.shake_max_pixels = 20,
      !.glow_enabled = TRUE,
      !.glow_intensity = 700,
      !.glow_radius_max = 14,
      !.saturation_intensity = 850,
      !.saturation_min = 900,
      !.saturation_max = 1900,
      !.contrast_intensity = 600,
      !.contrast_max = 1350,
      !.brightness_intensity = 500,
      !.brightness_max = 1250,
      !.hue_enabled = TRUE,
      !.hue_intensity = 800,
      !.hue_max_shift = 35000,
      !.vignette_enabled = TRUE,
      !.vignette_intensity = 550,
      !.vignette_max = 400,
      !.chromatic_enabled = TRUE,
      !.chromatic_intensity = 750,
      !.chromatic_max_offset = 14,
      !.blur_enabled = TRUE,
      !.blur_intensity = 350,
      !.warp_enabled = TRUE,
      !.warp_intensity = 550,
      !.warp_strength = 25 ]

Preset_bass ==
  [ EffectConfigDefault EXCEPT
      !.scale_intensity = 750,
      !.scale_max = 1120,
      !.shake_intensity = 650,
      !.shake_max_pixels = 22,
      !.glow_enabled = TRUE,
      !.glow_intensity = 550,
      !.glow_radius_max = 10,
      !.saturation_intensity = 500,
      !.saturation_max = 1400,
      !.contrast_intensity = 650,
      !.contrast_min = 920,
      !.contrast_max = 1350,
      !.brightness_intensity = 550,
      !.brightness_max = 1220,
      !.hue_enabled = FALSE,
      !.vignette_enabled = TRUE,
      !.vignette_intensity = 700,
      !.vignette_min = 80,
      !.vignette_max = 500,
      !.chromatic_enabled = TRUE,
      !.chromatic_intensity = 550,
      !.chromatic_max_offset = 9,
      !.blur_enabled = TRUE,
      !.blur_intensity = 400,
      !.blur_max_radius = 3,
      !.warp_enabled = FALSE ]

Preset_noir ==
  [ EffectConfigDefault EXCEPT
      !.scale_intensity = 300,
      !.scale_max = 1040,
      !.shake_intensity = 200,
      !.shake_max_pixels = 8,
      !.glow_enabled = TRUE,
      !.glow_intensity = 400,
      !.glow_radius_max = 5,
      !.saturation_enabled = TRUE,
      !.saturation_intensity = 500,
      !.saturation_min = 600,
      !.saturation_max = 950,
      !.contrast_intensity = 600,
      !.contrast_min = 850,
      !.contrast_max = 1400,
      !.brightness_intensity = 350,
      !.brightness_min = 850,
      !.brightness_max = 1050,
      !.hue_enabled = FALSE,
      !.vignette_enabled = TRUE,
      !.vignette_intensity = 850,
      !.vignette_min = 200,
      !.vignette_max = 650,
      !.chromatic_enabled = FALSE,
      !.blur_enabled = FALSE,
      !.warp_enabled = FALSE ]


\* EffectConfig.get_preset_names
PresetNames == {"subtle", "energetic", "aggressive", "cinematic", "dreamy",
                "retro", "minimal", "psychedelic", "bass", "noir"}

\* the presets dictionary that from_preset builds afresh on every call
Presets(preset_name) ==
  CASE preset_name = "subtle" -> Preset_subtle
    [] preset_name = "energetic" -> Preset_energetic
    [] preset_name = "aggressive" -> Preset_aggressive
    [] preset_name = "cinematic" -> Preset_cinematic
    [] preset_name = "dreamy" -> Preset_dreamy
    [] preset_name = "retro" -> Preset_retro
    [] preset_name = "minimal" -> Preset_minimal
    [] preset_name = "psychedelic" -> Preset_psychedelic
    [] preset_name = "bass" -> Preset_bass
    [] preset_name = "noir" -> Preset_noir

\* a lookup whose fallback is the configuration of the session in use
from_preset_current(preset_name) ==
  IF preset_name \in PresetNames
    THEN Presets(preset_name)
    ELSE IF sessions[1].built THEN sessions[1].config ELSE EffectConfigDefault

\* a lookup whose fallback is the session default preset
from_preset_energetic(preset_name) ==
  IF preset_name \in PresetNames THEN Presets(preset_name) ELSE Preset_energetic

\* EffectConfig.from_preset: presets.get(preset_name, cls())
from_preset(preset_name) ==
  IF preset_name \in PresetNames THEN Presets(preset_name) ELSE EffectConfigDefault

\* the attribute names of one effect's enabled flag and intensity
EnabledAttr(key) ==
  CASE key = "scale" -> "scale_enabled"
    [] key = "shake" -> "shake_enabled"
    [] key = "glow" -> "glow_enabled"
    [] key = "saturation" -> "saturation_enabled"
    [] key = "contrast" -> "contrast_enabled"
    [] key = "brightness" -> "brightness_enabled"
    [] key = "hue" -> "hue_enabled"
    [] key = "vignette" -> "vignette_enabled"
    [] key = "chromatic" -> "chromatic_enabled"
    [] key = "blur" -> "blur_enabled"
    [] key = "warp" -> "warp_enabled"

IntensityAttr(key) ==
  CASE key = "scale" -> "scale_intensity"
    [] key = "shake" -> "shake_intensity"
    [] key = "glow" -> "glow_intensity"
    [] key = "saturation" -> "saturation_intensity"
    [] key = "contrast" -> "contrast_intensity"
    [] key = "brightness" -> "brightness_intensity"
    [] key = "hue" -> "hue_intensity"
    [] key = "vignette" -> "vignette_intensity"
    [] key = "chromatic" -> "chromatic_intensity"
    [] key = "blur" -> "blur_intensity"
    [] key = "warp" -> "warp_intensity"

\* EffectConfig.to_dict: the per-effect {enabled, intensity} summary
to_dict(c) ==
  [key \in EffectKeys |->
     [enabled |-> c[EnabledAttr(key)], intensity |-> c[IntensityAttr(key)]]]

---------------------------------------------------------------------------
(* AudioReactiveApp: the effect variables (gui.py)                         *)

\* _init_effect_variables: the BooleanVar / DoubleVar of every effect
InitEffectVariables ==
  [key \in EffectKeys |->
     [enabled |-> key \notin {"hue", "blur", "warp"},
      intensity |-> CASE key \in {"scale", "glow", "saturation", "vignette"} -> 500
                      [] key \in {"shake", "contrast", "chromatic"} -> 400
                      [] OTHER -> 300]]

\* an effect_map whose shake row names the scale intensity
effect_map_slip(key) ==
  IF key = "shake" THEN <<"shake_enabled", "scale_intensity">>
                   ELSE <<EnabledAttr(key), IntensityAttr(key)>>

\* _select_preset: effect_map, from an effect key to the two attributes read
effect_map(key) == <<EnabledAttr(key), IntensityAttr(key)>>

\* _select_preset: the effect variables after applying from_preset(preset_key)
SelectPresetVars(preset_key) ==
  LET config == from_preset(preset_key)
  IN  [key \in EffectKeys |->
         [enabled |-> config[effect_map(key)[1]],
          intensity |-> config[effect_map(key)[2]]]]

\* _build_effect_config: EffectConfig(<enabled and intensity of every effect>),
\* every other field at its dataclass default
BuildEffectConfig(effects) ==
  [ EffectConfigDefault EXCEPT
      !.scale_enabled = effects["scale"].enabled,
      !.scale_intensity = effects["scale"].intensity,
      !.shake_enabled = effects["shake"].enabled,
      !.shake_intensity = effects["shake"].intensity,
      !.glow_enabled = effects["glow"].enabled,
      !.glow_intensity = effects["glow"].intensity,
      !.saturation_enabled = effects["saturation"].enabled,
      !.saturation_intensity = effects["saturation"].intensity,
      !.contrast_enabled = effects["contrast"].enabled,
      !.contrast_intensity = effects["contrast"].intensity,
      !.brightness_enabled = effects["brightness"].enabled,
      !.brightness_intensity = effects["brightness"].intensity,
      !.hue_enabled = effects["hue"].enabled,
      !.hue_intensity = effects["hue"].intensity,
      !.vignette_enabled = effects["vignette"].enabled,
      !.vignette_intensity = effects["vignette"].intensity,
      !.chromatic_enabled = effects["chromatic"].enabled,
      !.chromatic_intensity = effects["chromatic"].intensity,
      !.blur_enabled = effects["blur"].enabled,
      !.blur_intensity = effects["blur"].intensity,
      !.warp_enabled = effects["warp"].enabled,
      !.warp_intensity = effects["warp"].intensity ]

---------------------------------------------------------------------------
(* ImageEffectsProcessor (core/effects.py)                                 *)
(*                                                                         *)
(* A chain state st is a record [config, width, height, prev, cache, rng,  *)
(* img]: the processor's fields, the numpy random state and the image      *)
(* being worked on.  Every _apply_* step maps a chain state to a chain     *)
(* state.                                                                  *)

\* the base picture of a session, before any transform
BaseImage(w, h) == [size |-> <<w, h>>, ops |-> <<>>]

\* _lerp
Lerp(a, b, t) == a + Mul(b - a, t)

\* a smoother that steps past its target (factor 1 + smoothing)
SmoothValueOvershoot(prev, key, target, smoothing) ==
  LET old == IF key \in DOMAIN prev THEN prev[key] ELSE target
  IN  [k \in DOMAIN prev \cup {key} |->
         IF k = key THEN Lerp(old, target, Unit + smoothing) ELSE prev[k]]

\* a smoother that forgets the previous value and emits the target
SmoothValueUnsmoothed(prev, key, target, smoothing) ==
  [k \in DOMAIN prev \cup {key} |-> IF k = key THEN target ELSE prev[k]]

\* a smoother that starts a new key from zero
SmoothValueFromZero(prev, key, target, smoothing) ==
  LET old == IF key \in DOMAIN prev THEN prev[key] ELSE 0
  IN  [k \in DOMAIN prev \cup {key} |->
         IF k = key THEN Lerp(old, target, smoothing) ELSE prev[k]]

\* _smooth_value: self._prev_values after the call; the value returned is
\* the new self._prev_values[key]
SmoothValue(prev, key, target, smoothing) ==
  LET old == IF key \in DOMAIN prev THEN prev[key] ELSE target
  IN  [k \in DOMAIN prev \cup {key} |->
         IF k = key THEN Lerp(old, target, smoothing) ELSE prev[k]]

\* np.random.seed(seed): the generator state after seeding
RandomSeed(seed) == (seed * 7 + 3) % 64

\* the generator state after one draw
RandomAdvance(state) == (state * 5 + 1) % 64

\* np.random.randint(low, high) drawn in generator state `state`
RandInt(state, low, high) == low + (RandomAdvance(state) % (high - low))

\* a scale step that ignores its enabled flag
ApplyScaleAlways(st, audio_level) ==
  LET intensity == Mul(audio_level, st.config.scale_intensity)
      target == Lerp(st.config.scale_min, st.config.scale_max, intensity)
      prev1 == SmoothValue(st.prev, "scale", target, 400)
      new_w == IntOf(st.width * prev1["scale"])
      new_h == IntOf(st.height * prev1["scale"])
  IN  [st EXCEPT !.prev = prev1,
                 !.img = [size |-> <<st.width, st.height>>,
                          ops |-> Append(st.img.ops, <<"scale", new_w, new_h>>)]]

\* a scale step that maps the level straight onto [scale_min, scale_max]
ApplyScaleFullRange(st, audio_level) ==
  IF ~st.config.scale_enabled THEN st
  ELSE
    LET target == Lerp(st.config.scale_min, st.config.scale_max, audio_level)
        prev1 == SmoothValue(st.prev, "scale", target, 400)
        new_w == IntOf(st.width * prev1["scale"])
        new_h == IntOf(st.height * prev1["scale"])
    IN  [st EXCEPT !.prev = prev1,
                   !.img = [size |-> <<st.width, st.height>>,
                            ops |-> Append(st.img.ops, <<"scale", new_w, new_h>>)]]

\* a scale step that returns the resized image without cropping it back
ApplyScaleNoCrop(st, audio_level) ==
  IF ~st.config.scale_enabled THEN st
  ELSE
    LET intensity == Mul(audio_level, st.config.scale_intensity)
        target == Lerp(st.config.scale_min, st.config.scale_max, intensity)
        prev1 == SmoothValue(st.prev, "scale", target, 400)
        new_w == IntOf(st.width * prev1["scale"])
        new_h == IntOf(st.height * prev1["scale"])
    IN  [st EXCEPT !.prev = prev1,
                   !.img = [size |-> <<new_w, new_h>>,
                            ops |-> Append(st.img.ops, <<"scale", new_w, new_h>>)]]

\* _apply_scale
ApplyScale(st, audio_level) ==
  IF ~st.config.scale_enabled THEN st
  ELSE
    LET intensity == Mul(audio_level, st.config.scale_intensity)
        target == Lerp(st.config.scale_min, st.config.scale_max, intensity)
        prev1 == SmoothValue(st.prev, "scale", target, 400)
        scale == prev1["scale"]
        new_w == IntOf(st.width * scale)
        new_h == IntOf(st.height * scale)
        left == (new_w - st.width) \div 2
        top == (new_h - st.height) \div 2
    IN  [st EXCEPT !.prev = prev1,
                   !.img = [size |-> <<(left + st.width) - left, (top + st.height) - top>>,
                            ops |-> Append(st.img.ops, <<"scale", new_w, new_h>>)]]

\* a shake step that draws from the generator without seeding it
ApplyShakeUnseeded(st, audio_level, frame_idx) ==
  IF ~st.config.shake_enabled THEN st
  ELSE
    LET intensity == Mul(audio_level, st.config.scale_intensity)
        max_offset == IntOf(st.config.shake_max_pixels * intensity)
    IN  IF max_offset < 1 THEN st
        ELSE
          LET rng1 == RandomAdvance(st.rng)
              rng2 == RandomAdvance(rng1)
              drawn_x == RandInt(st.rng, 0 - max_offset, max_offset + 1)
              drawn_y == RandInt(rng1, 0 - max_offset, max_offset + 1)
              prev1 == SmoothValue(st.prev, "shake_x", drawn_x * Unit, 500)
              prev2 == SmoothValue(prev1, "shake_y", drawn_y * Unit, 500)
          IN  [st EXCEPT !.rng = rng2, !.prev = prev2,
                         !.img = [size |-> <<st.width, st.height>>,
                                  ops |-> Append(st.img.ops,
                                            <<"shake", IntOf(prev2["shake_x"]),
                                              IntOf(prev2["shake_y"])>>)]]

\* _apply_shake (the intensity is read from scale_intensity, as in the source)
ApplyShake(st, audio_level, frame_idx) ==
  IF ~st.config.shake_enabled THEN st
  ELSE
    LET intensity == Mul(audio_level, st.config.scale_intensity)
        max_offset == IntOf(st.config.shake_max_pixels * intensity)
    IN  IF max_offset < 1 THEN st
        ELSE
          LET rng0 == RandomSeed(frame_idx)
              rng1 == RandomAdvance(rng0)
              rng2 == RandomAdvance(rng1)
              drawn_x == RandInt(rng0, 0 - max_offset, max_offset + 1)
              drawn_y == RandInt(rng1, 0 - max_offset, max_offset + 1)
              prev1 == SmoothValue(st.prev, "shake_x", drawn_x * Unit, 500)
              prev2 == SmoothValue(prev1, "shake_y", drawn_y * Unit, 500)
          IN  [st EXCEPT !.rng = rng2, !.prev = prev2,
                         !.img = [size |-> <<st.width, st.height>>,
                                  ops |-> Append(st.img.ops,
                                            <<"shake", IntOf(prev2["shake_x"]),
                                              IntOf(prev2["shake_y"])>>)]]

\* _apply_warp
ApplyWarp(st, audio_level, frame_idx) ==
  IF ~st.config.warp_enabled THEN st
  ELSE
    LET intensity == Mul(audio_level, st.config.warp_intensity)
        strength == Mul(st.config.warp_strength, intensity)
    IN  IF strength < 1 THEN st
        ELSE [st EXCEPT !.img = [size |-> <<st.width, st.height>>,
                                 ops |-> Append(st.img.ops,
                                           <<"warp", strength, frame_idx>>)]]

\* _apply_saturation
ApplySaturation(st, audio_level) ==
  IF ~st.config.saturation_enabled THEN st
  ELSE
    LET intensity == Mul(audio_level, st.config.saturation_intensity)
        target == Lerp(st.config.saturation_min, st.config.saturation_max, intensity)
        prev1 == SmoothValue(st.prev, "saturation", target, 350)
    IN  [st EXCEPT !.prev = prev1,
                   !.img.ops = Append(@, <<"saturation", prev1["saturation"], 0>>)]

\* _apply_contrast
ApplyContrast(st, audio_level) ==
  IF ~st.config.contrast_enabled THEN st
  ELSE
    LET intensity == Mul(audio_level, st.config.contrast_intensity)
        target == Lerp(st.config.contrast_min, st.config.contrast_max, intensity)
        prev1 == SmoothValue(st.prev, "contrast", target, 350)
    IN  [st EXCEPT !.prev = prev1,
                   !.img.ops = Append(@, <<"contrast", prev1["contrast"], 0>>)]

\* _apply_brightness
ApplyBrightness(st, audio_level) ==
  IF ~st.config.brightness_enabled THEN st
  ELSE
    LET intensity == Mul(audio_level, st.config.brightness_intensity)
        target == Lerp(st.config.brightness_min, st.config.brightness_max, intensity)
        prev1 == SmoothValue(st.prev, "brightness", target, 350)
    IN  [st EXCEPT !.prev = prev1,
                   !.img.ops = Append(@, <<"brightness", prev1["brightness"], 0>>)]

\* _apply_hue_shift (the shift is in degrees)
ApplyHueShift(st, audio_level) ==
  IF ~st.config.hue_enabled THEN st
  ELSE
    LET intensity == Mul(audio_level, st.config.hue_intensity)
        target == Lerp(0, st.config.hue_max_shift, intensity)
        prev1 == SmoothValue(st.prev, "hue", target, 300)
        shift == prev1["hue"]
    IN  IF Abs(shift) < Unit THEN [st EXCEPT !.prev = prev1]
        ELSE [st EXCEPT !.prev = prev1,
                        !.img.ops = Append(@, <<"hue", shift, 0>>)]

\* _apply_glow
ApplyGlow(st, audio_level) ==
  IF ~st.config.glow_enabled THEN st
  ELSE
    LET intensity == Mul(audio_level, st.config.glow_intensity)
        radius0 == IntOf(Lerp(st.config.glow_radius_min * Unit,
                              st.config.glow_radius_max * Unit, intensity))
        prev1 == SmoothValue(st.prev, "glow", radius0 * Unit, 400)
        radius == IntOf(prev1["glow"])
        blend_amount == Min(Mul(300, intensity), 400)
    IN  IF radius < 1 THEN [st EXCEPT !.prev = prev1]
        ELSE [st EXCEPT !.prev = prev1,
                        !.img.ops = Append(@, <<"glow", radius, blend_amount>>)]

\* _apply_chromatic_aberration
ApplyChromaticAberration(st, audio_level) ==
  IF ~st.config.chromatic_enabled THEN st
  ELSE
    LET intensity == Mul(audio_level, st.config.chromatic_intensity)
        offset0 == IntOf(Lerp(0, st.config.chromatic_max_offset * Unit, intensity))
        prev1 == SmoothValue(st.prev, "chromatic", offset0 * Unit, 400)
        offset == IntOf(prev1["chromatic"])
    IN  IF offset < 1 THEN [st EXCEPT !.prev = prev1]
        ELSE [st EXCEPT !.prev = prev1,
                        !.img = [size |-> <<st.width, st.height>>,
                                 ops |-> Append(st.img.ops, <<"chromatic", offset, 0>>)]]

\* a motion blur that reacts to every level, without the 0.6 threshold
ApplyMotionBlurAlways(st, audio_level) ==
  IF ~st.config.blur_enabled THEN st
  ELSE
    LET intensity == Mul(audio_level, st.config.blur_intensity)
        radius == IntOf(Lerp(0, st.config.blur_max_radius * Unit, intensity))
    IN  IF radius < 1 THEN st
        ELSE [st EXCEPT !.img.ops = Append(@, <<"blur", radius, 0>>)]

\* _apply_motion_blur
ApplyMotionBlur(st, audio_level) ==
  IF ~st.config.blur_enabled THEN st
  ELSE IF audio_level < 600 THEN st
  ELSE
    LET intensity == Mul(((audio_level - 600) * Unit) \div 400, st.config.blur_intensity)
        radius == IntOf(Lerp(0, st.config.blur_max_radius * Unit, intensity))
    IN  IF radius < 1 THEN st
        ELSE [st EXCEPT !.img.ops = Append(@, <<"blur", radius, 0>>)]

\* round(strength, 2): the cache key, in hundredths
VignetteKey(strength) == (strength + 5) \div 10

\* a mask cache that redraws the mask on every call
GetVignetteMaskRedrawn(cache, strength) ==
  LET key == VignetteKey(strength)
  IN  [k \in DOMAIN cache \cup {key} |-> IF k = key THEN strength ELSE cache[k]]

\* _get_vignette_mask: self._vignette_cache after the call; a mask is named
\* by the strength it was drawn with
GetVignetteMask(cache, strength) ==
  LET key == VignetteKey(strength)
  IN  IF key \in DOMAIN cache THEN cache
      ELSE [k \in DOMAIN cache \cup {key} |-> IF k = key THEN strength ELSE cache[k]]

\* a vignette step driven by the level itself, not by its complement
ApplyVignetteNotInverted(st, audio_level) ==
  IF ~st.config.vignette_enabled THEN st
  ELSE
    LET intensity == Mul(audio_level, st.config.vignette_intensity)
        target == Lerp(st.config.vignette_min, st.config.vignette_max, intensity)
        prev1 == SmoothValue(st.prev, "vignette", target, 300)
        strength == prev1["vignette"]
        cache1 == GetVignetteMask(st.cache, strength)
    IN  IF strength < 50 THEN [st EXCEPT !.prev = prev1]
        ELSE [st EXCEPT !.prev = prev1, !.cache = cache1,
                        !.img.ops = Append(@, <<"vignette",
                                                cache1[VignetteKey(strength)], 0>>)]

\* _apply_vignette
ApplyVignette(st, audio_level) ==
  IF ~st.config.vignette_enabled THEN st
  ELSE
    LET intensity == Mul(Unit - audio_level, st.config.vignette_intensity)
        target == Lerp(st.config.vignette_min, st.config.vignette_max, intensity)
        prev1 == SmoothValue(st.prev, "vignette", target, 300)
        strength == prev1["vignette"]
        cache1 == GetVignetteMask(st.cache, strength)
    IN  IF strength < 50 THEN [st EXCEPT !.prev = prev1]
        ELSE [st EXCEPT !.prev = prev1, !.cache = cache1,
                        !.img.ops = Append(@, <<"vignette",
                                                cache1[VignetteKey(strength)], 0>>)]

\* an impact that takes the bass level as it is, without the 1.2 boost
ImpactNoBoost(audio_level, bass_level) == Min(Max(audio_level, bass_level), Unit)

\* process_frame: impact = min(max(audio_level, bass_level * 1.2), 1.0)
Impact(audio_level, bass_level) == Min(Max(audio_level, Mul(bass_level, 1200)), Unit)

\* a chain that darkens the corners before it blurs
ApplyStepVignetteEarly(k, st, audio_level, impact, frame_idx) ==
  CASE k = 1 -> ApplyScale(st, impact)
    [] k = 2 -> ApplyShake(st, impact, frame_idx)
    [] k = 3 -> ApplyWarp(st, impact, frame_idx)
    [] k = 4 -> ApplySaturation(st, audio_level)
    [] k = 5 -> ApplyContrast(st, audio_level)
    [] k = 6 -> ApplyBrightness(st, impact)
    [] k = 7 -> ApplyHueShift(st, audio_level)
    [] k = 8 -> ApplyGlow(st, impact)
    [] k = 9 -> ApplyChromaticAberration(st, impact)
    [] k = 10 -> ApplyVignette(st, audio_level)
    [] k = 11 -> ApplyMotionBlur(st, impact)

\* process_frame: step k of the eleven, in the order the source applies them,
\* with the level that drives it
ApplyStep(k, st, audio_level, impact, frame_idx) ==
  CASE k = 1 -> ApplyScale(st, impact)
    [] k = 2 -> ApplyShake(st, impact, frame_idx)
    [] k = 3 -> ApplyWarp(st, impact, frame_idx)
    [] k = 4 -> ApplySaturation(st, audio_level)
    [] k = 5 -> ApplyContrast(st, audio_level)
    [] k = 6 -> ApplyBrightness(st, impact)
    [] k = 7 -> ApplyHueShift(st, audio_level)
    [] k = 8 -> ApplyGlow(st, impact)
    [] k = 9 -> ApplyChromaticAberration(st, impact)
    [] k = 10 -> ApplyMotionBlur(st, impact)
    [] k = 11 -> ApplyVignette(st, audio_level)

RECURSIVE RunSteps(_, _, _, _, _)
RunSteps(run, st, audio_level, impact, frame_idx) ==
  IF Len(run) = 12 THEN run
  ELSE LET next == ApplyStep(Len(run), st, audio_level, impact, frame_idx)
       IN  RunSteps(Append(run, next), next, audio_level, impact, frame_idx)

\* process_frame: the chain states after the copy of the base image and after
\* each of the eleven steps
ProcessFrameSteps(st, audio_level, bass_level, frame_idx) ==
  RunSteps(<<st>>, st, audio_level, Impact(audio_level, bass_level), frame_idx)

\* the effect applied by each step of process_frame, in order
StepEffect == <<"scale", "shake", "warp", "saturation", "contrast", "brightness",
                "hue", "glow", "chromatic", "blur", "vignette">>

---------------------------------------------------------------------------
(* AudioProcessor (core/audio.py)                                          *)

\* n_fft, the transform size of the short-time Fourier analysis
N_FFT == 2048

\* the spectral bins the model follows, by index into librosa.fft_frequencies:
\* the first and last bin and the bins next to the 250 Hz and 2000 Hz band
\* edges at the sample rates of SampleRates
SampleBins == {0, 11, 12, 64, 92, 93, 512, 1024}

\* hop_length = int(self.sr / self.fps)
HopLength(rate, f) == rate \div f

\* the number of analysis windows librosa.stft returns for n samples (centred)
StftFrames(n, hop) == 1 + (n \div hop)

\* bass_mask = freqs < 250, with freqs[k] = k * sr / n_fft
BassMask(k, rate) == k * rate < 250 * N_FFT

\* a mid band that leaves out its lower edge
MidMaskAbove(k, rate) == k * rate > 250 * N_FFT /\ k * rate < 2000 * N_FFT

\* mid_mask = (freqs >= 250) & (freqs < 2000)
MidMask(k, rate) == k * rate >= 250 * N_FFT /\ k * rate < 2000 * N_FFT

\* high_mask = freqs >= 2000
HighMask(k, rate) == k * rate >= 2000 * N_FFT

RECURSIVE SumOver(_, _)
SumOver(f, S) ==
  IF S = {} THEN 0
  ELSE LET k == CHOOSE k \in S : TRUE IN f[k] + SumOver(f, S \ {k})

\* np.sum(stft[mask, :], axis=0) for one analysis window
BandEnergy(spectrum, rate, band) ==
  SumOver(spectrum,
          {k \in DOMAIN spectrum :
             CASE band = "bass" -> BassMask(k, rate)
               [] band = "mid" -> MidMask(k, rate)
               [] band = "high" -> HighMask(k, rate)
               [] OTHER -> TRUE})

\* the 0.8 power curve, np.power(data, 0.8), evaluated on a grid of 1/50:
\* the largest grid value r with r^5 <= x^4
Pow08(x) ==
  LET g == x \div (Unit \div 50)
      r == CHOOSE r \in 0..Max(g, 50) : r ^ 5 <= (g ^ 4) * 50 /\ (g ^ 4) * 50 < (r + 1) ^ 5
  IN  r * (Unit \div 50)

\* np.convolve(data, np.ones(3) / 3, mode='same'): the centred part, of length
\* max(len(data), 3), of the full convolution
ConvolveSame(data) ==
  LET m == Len(data)
      at(j) == IF j >= 1 /\ j <= m THEN data[j] ELSE 0
      full == [j \in 1..(m + 2) |-> (at(j - 2) + at(j - 1) + at(j)) \div 3]
      off == (Min(m, 3) - 1) \div 2
  IN  [i \in 1..Max(m, 3) |-> full[i + off]]

\* the silence guard of _normalize_and_smooth, 1e-8, in raw magnitude units
NormEps == 1

\* a normaliser that scales by the peak alone
MinMaxNormalizeByMax(data) ==
  LET data_max == SeqMax(data)
  IN  IF data_max > NormEps
        THEN [i \in 1..Len(data) |-> (data[i] * Unit) \div data_max]
        ELSE [i \in 1..Len(data) |-> 0]

\* _normalize_and_smooth, first step: min-max normalisation
MinMaxNormalize(data) ==
  LET data_min == SeqMin(data)
      data_max == SeqMax(data)
  IN  IF data_max - data_min > NormEps
        THEN [i \in 1..Len(data) |-> ((data[i] - data_min) * Unit) \div (data_max - data_min)]
        ELSE [i \in 1..Len(data) |-> 0]

\* _normalize_and_smooth
NormalizeAndSmooth(data) ==
  LET smoothed == ConvolveSame(MinMaxNormalize(data))
  IN  [i \in 1..Len(smoothed) |-> Pow08(smoothed[i])]

\* a length correction that never truncates
AdjustLengthPadOnly(data, count) ==
  IF Len(data) < count
    THEN data \o [i \in 1..(count - Len(data)) |-> 0]
    ELSE data

\* a length correction that cuts from the front
AdjustLengthKeepTail(data, count) ==
  IF Len(data) > count THEN SubSeq(data, Len(data) - count + 1, Len(data))
  ELSE IF Len(data) < count
    THEN data \o [i \in 1..(count - Len(data)) |-> 0]
    ELSE data

\* _adjust_length
AdjustLength(data, count) ==
  IF Len(data) > count THEN SubSeq(data, 1, count)
  ELSE IF Len(data) < count
    THEN data \o [i \in 1..(count - Len(data)) |-> 0]
    ELSE data

\* load: frame_count = int(np.ceil(duration * fps)), duration = n / sr
FrameCountOf(n, rate, f) == CeilDiv(n * f, rate)

\* extract_features: the AudioFeatures built from the magnitude spectra stft
\* (one spectrum per analysis window) of a loaded track
ExtractFeaturesOf(stft, n, rate, count) ==
  LET raw(band) == [w \in 1..Len(stft) |-> BandEnergy(stft[w], rate, band)]
      env(band) == AdjustLength(NormalizeAndSmooth(raw(band)), count)
  IN  [overall_energy |-> env("overall"),
       bass_energy |-> env("bass"),
       mid_energy |-> env("mid"),
       high_energy |-> env("high"),
       duration |-> <<n, rate>>,
       frame_count |-> count]

---------------------------------------------------------------------------
(* Inputs                                                                  *)

\* FPS, the frame rate of the command line and of the GUI
FPS == 30

\* the sample rates and frame rates of the tracks analysed
SampleRates == {8000, 22050, 44100}

FpsChoices == {24, FPS}

\* tracks are up to MaxHops hops long, give or take a sample
MaxHops == 2

SampleCounts(rate, f) ==
  {w * HopLength(rate, f) + d :
     w \in 0..MaxHops, d \in {0, 1, HopLength(rate, f) - 1}} \ {0}

\* the bins a window's energy can be concentrated in: one per band (bin 64 is
\* 250 Hz at 8000 samples per second)
ExcitedBins == {0, 64, 1024}

\* the magnitude spectra one analysis window can have: silence, a flat
\* spectrum, or a single excited bin
WindowSpectra ==
  {[k \in SampleBins |-> 0], [k \in SampleBins |-> 1]}
    \cup {[k \in SampleBins |-> IF k = b THEN 2 ELSE 0] : b \in ExcitedBins}

\* the tracks: n samples at rate sr, with the spectra librosa.stft finds in
\* them at the hop length of frame rate f
Tracks(f) ==
  UNION {UNION {[n : {n}, sr : {rate},
                 stft : [1..StftFrames(n, HopLength(rate, f)) -> WindowSpectra]] :
                n \in SampleCounts(rate, f)} :
         rate \in SampleRates}

\* a silent track of `seconds` seconds
SilentTrack(rate, f, seconds) ==
  [n |-> seconds * rate, sr |-> rate,
   stft |-> [w \in 1..StftFrames(seconds * rate, HopLength(rate, f)) |->
               [k \in SampleBins |-> 0]]]

\* the base pictures: width and height
BaseSizes == {<<64, 48>>, <<31, 17>>}

---------------------------------------------------------------------------
(* State of the objects before they are used                               *)

Sessions == {1, 2}

NoSession ==
  [built |-> FALSE, given |-> FALSE, config |-> EffectConfigDefault,
   width |-> 0, height |-> 0, prev |-> <<>>, cache |-> <<>>, reconf |-> <<>>]

NoLoop ==
  [kind |-> "none", pc |-> "idle", i |-> 0, cb |-> FALSE, progress |-> <<>>, total |-> 0]

AudioFresh ==
  /\ y = None /\ sr = None /\ frame_count = None /\ features = <<>>

ChainFresh ==
  /\ sessions = [s \in Sessions |-> NoSession]
  /\ rng = 0
  /\ calls = [s \in Sessions |-> <<>>]
  /\ frames = [s \in Sessions |-> <<>>]
  /\ steps = [s \in Sessions |-> <<>>]
  /\ loop = [s \in Sessions |-> NoLoop]

\* AudioReactiveApp.__init__.  History kept beside the program's fields:
\* synced, whether the effect variables still hold what the last
\* _select_preset wrote; edits, the number of edits the user has made;
\* built_preset and built_synced, current_preset and synced when the render
\* thread last built its effect config
GuiFresh ==
  gui = [current_preset |-> "energetic", effects |-> InitEffectVariables,
         synced |-> FALSE, edits |-> 0, built_preset |-> "", built_synced |-> FALSE]

\* AudioReactiveApp.__init__: no render is running, the generate button is
\* enabled, the progress queue is empty
UiFresh ==
  [is_rendering |-> FALSE, button |-> "normal", queue |-> <<>>, threads |-> <<>>,
   put |-> <<>>, applied |-> <<>>, draining |-> FALSE, clicks |-> 0]

---------------------------------------------------------------------------
(* AudioProcessor: operations                                              *)

\* The run.  kind is "cli" (main -> generate_video), "gui" (_render_thread)
\* or "api" (the classes called directly, in any order).  pc is the next
\* operation of a cli or gui run, "ended" once it is over.  fault names the
\* operation the environment makes fail (an undecodable track, a broken
\* picture), "none" if there is none.  outcome is how the run ended: ""
\* (not ended, or the process died with no outcome), "complete", "error",
\* "cancelled".  History: raised, the exceptions that reached the caller;
\* failed, the operation that raised last; attempts, the librosa.load calls
\* made by the operation that raised last; cancel_at, the number of frames
\* rendered when the user asked the run to stop (None: never).
AppInit(kind, fault) ==
  [kind |-> kind, pc |-> IF kind = "api" THEN "api" ELSE "load", fault |-> fault,
   outcome |-> "", raised |-> 0, failed |-> "", attempts |-> 0, cancel_at |-> None]

\* the operations of a run, in the order generate_video and _render_thread
\* make them
RunOrder(kind) ==
  IF kind = "cli" THEN <<"load", "extract", "preset", "renderer", "loop", "render">>
                  ELSE <<"load", "extract", "renderer", "loop", "render">>

\* operation op may be called now
AppAt(op) == app.kind = "api" \/ app.pc = op

\* the run after operation op returned
AppNext(op) ==
  IF app.kind = "api" THEN app
  ELSE LET order == RunOrder(app.kind)
           i == CHOOSE i \in 1..Len(order) : order[i] = op
       IN  [app EXCEPT !.pc = order[i + 1]]

\* a run that notes the exception and carries on with the next operation
AppRaiseContinue(op, attempts) ==
  IF app.kind = "api"
    THEN [app EXCEPT !.raised = @ + 1, !.failed = op, !.attempts = attempts]
    ELSE LET order == RunOrder(app.kind)
             i == CHOOSE i \in 1..Len(order) : order[i] = op
         IN  [app EXCEPT !.raised = @ + 1, !.failed = op, !.attempts = attempts,
                         !.outcome = "error", !.pc = order[i + 1]]

\* the run after operation op raised: the exception reaches the caller; in a
\* cli run main prints the error and exits, in a gui run _render_thread
\* queues ("error", ...) and returns
AppRaise(op, attempts) ==
  IF app.kind = "api"
    THEN [app EXCEPT !.raised = @ + 1, !.failed = op, !.attempts = attempts]
    ELSE [app EXCEPT !.raised = @ + 1, !.failed = op, !.attempts = attempts,
                     !.outcome = "error", !.pc = "ended"]

\* at most MaxRaises failing calls are followed
MaxRaises == 2

\* AudioProcessor.load
Load ==
  /\ AppAt("load")
  /\ IF app.fault = "load"
       THEN /\ app.raised < MaxRaises
            /\ app' = AppRaise("load", 1)
            /\ UNCHANGED <<y, sr, frame_count>>
       ELSE /\ y' = file.n
            /\ sr' = file.sr
            /\ frame_count' = FrameCountOf(file.n, file.sr, fps)
            /\ app' = AppNext("load")
  /\ UNCHANGED <<file, fps, features, chainVars, lookups, adjusted, ui, gui>>

\* an extract_features that analyses a waveform it never loaded
ExtractFeaturesUnloaded ==
  /\ AppAt("extract")
  /\ features = <<>>
  /\ features' = ExtractFeaturesOf(file.stft, file.n, file.sr,
                                   FrameCountOf(file.n, file.sr, fps))
  /\ app' = AppNext("extract")
  /\ UNCHANGED <<y, sr, frame_count, file, fps, chainVars, lookups, adjusted, ui, gui>>

\* AudioProcessor.extract_features (which loads the track first if needed)
ExtractFeatures ==
  /\ AppAt("extract")
  /\ features = <<>>
  /\ IF y = None /\ app.fault = "load"
       THEN /\ app.raised < MaxRaises
            /\ app' = AppRaise("extract", 1)
            /\ UNCHANGED <<y, sr, frame_count, features>>
       ELSE /\ y' = file.n
            /\ sr' = file.sr
            /\ frame_count' = IF y = None THEN FrameCountOf(file.n, file.sr, fps)
                                          ELSE frame_count
            /\ IF app.fault = "extract"
                 THEN /\ app.raised < MaxRaises
                      /\ app' = AppRaise("extract", IF y = None THEN 1 ELSE 0)
                      /\ UNCHANGED features
                 ELSE /\ features' = ExtractFeaturesOf(file.stft, file.n, file.sr,
                                                       frame_count')
                      /\ app' = AppNext("extract")
  /\ UNCHANGED <<file, fps, chainVars, lookups, adjusted, ui, gui>>

InitAudio ==
  /\ fps \in FpsChoices
  /\ file \in Tracks(fps)
  /\ AudioFresh /\ ChainFresh /\ GuiFresh
  /\ lookups = <<>>
  /\ adjusted = <<>> /\ ui = UiFresh
  /\ \E fault \in {"none", "load", "extract"} : app = AppInit("api", fault)

NextAudio == Load \/ ExtractFeatures

SpecAudio == InitAudio /\ [][NextAudio]_vars

---------------------------------------------------------------------------
(* FrameRenderer (core/renderer.py) and the render loops                   *)

\* FrameRenderer.__init__: the session built on a picture of size <<w, h>>;
\* given says whether the caller supplied effect_config; reconf is the history
\* of set_effect_config calls (none yet)
FrameRendererInit(w, h, given, effect_config) ==
  [built |-> TRUE, given |-> given,
   config |-> IF given THEN effect_config ELSE from_preset("energetic"),
   width |-> w, height |-> h, prev |-> <<>>, cache |-> <<>>, reconf |-> <<>>]

\* the chain state a session enters process_frame with
ChainState(s) ==
  [config |-> sessions[s].config, width |-> sessions[s].width,
   height |-> sessions[s].height, prev |-> sessions[s].prev,
   cache |-> sessions[s].cache, rng |-> rng,
   img |-> BaseImage(sessions[s].width, sessions[s].height)]

\* FrameRenderer.render_frame -> ImageEffectsProcessor.process_frame on session
\* s; the call, the smoothing state it leaves and the image it returns are
\* appended to calls[s]
RenderFrame(s, audio_level, bass_level, frame_idx) ==
  \E run \in {ProcessFrameSteps(ChainState(s), audio_level, bass_level, frame_idx)} :
    \E last \in {run[Len(run)]} :
      /\ sessions' = [sessions EXCEPT ![s].prev = last.prev, ![s].cache = last.cache]
      /\ rng' = last.rng
      /\ steps' = [steps EXCEPT ![s] = [k \in 1..Len(run) |-> run[k].img]]
      /\ calls' = [calls EXCEPT ![s] = Append(@,
                     [audio_level |-> audio_level, bass_level |-> bass_level,
                      frame_idx |-> frame_idx, prev |-> last.prev, out |-> last.img])]
      /\ frames' = [frames EXCEPT ![s] = Append(@, last.img)]

\* a generator loop that reads the bass level from the overall array
GenArgsSlip(audio_data, bass_data, i) == <<audio_data[i + 1], audio_data[i + 1], i>>

\* generate_frames: the arguments of render_frame for loop index i
GenArgs(audio_data, bass_data, i) == <<audio_data[i + 1], bass_data[i + 1], i>>

\* generate_video: the arguments of render_frame for loop index i
CliArgs(feat, i) == <<feat.overall_energy[i + 1], feat.bass_energy[i + 1], i>>

\* _render_thread: the arguments of render_frame for loop index i
GuiArgs(feat, i) == <<feat.overall_energy[i + 1], feat.bass_energy[i + 1], i>>

\* FrameRenderer(background_path, effect_config) on session s
NewRenderer(s, size, given, effect_config) ==
  /\ AppAt("renderer")
  /\ ~sessions[s].built
  /\ IF app.fault = "renderer"
       THEN /\ app.raised < MaxRaises
            /\ app' = AppRaise("renderer", 0)
            /\ UNCHANGED sessions
       ELSE /\ sessions' = [sessions EXCEPT ![s] =
                 FrameRendererInit(size[1], size[2], given, effect_config)]
            /\ app' = AppNext("renderer")
  /\ UNCHANGED <<audioVars, rng, calls, frames, steps, loop, lookups, adjusted, ui, gui>>

\* the start of a render loop over the extracted features: the for loop of
\* generate_video ("cli") or of _render_thread ("gui"), or the creation of the
\* generate_frames generator; cb says whether progress is reported (verbose,
\* or a progress_callback was passed)
StartLoop(s, kind, cb) ==
  /\ AppAt("loop")
  /\ app.kind # "api" => kind = app.kind
  /\ app' = AppNext("loop")
  /\ sessions[s].built
  /\ features # <<>>
  /\ loop[s].kind = "none"
  /\ loop' = [loop EXCEPT ![s] =
       [kind |-> kind, pc |-> IF kind = "generator" THEN "created" ELSE "rendering",
        i |-> 0, cb |-> cb, progress |-> <<>>,
        total |-> IF kind = "generator" THEN Len(features.overall_energy)
                                        ELSE features.frame_count]]
  /\ UNCHANGED <<audioVars, sessions, rng, calls, frames, steps, lookups, adjusted, ui, gui>>

\* one iteration of the for loop of generate_video
CliStep(s) ==
  /\ AppAt("render")
  /\ loop[s].kind = "cli" /\ loop[s].pc = "rendering"
  /\ loop[s].i < loop[s].total
  /\ LET i == loop[s].i
         args == CliArgs(features, i)
     IN  /\ RenderFrame(s, args[1], args[2], args[3])
         /\ loop' = [loop EXCEPT
              ![s].i = i + 1,
              ![s].progress =
                 IF loop[s].cb /\ (i % 10 = 0 \/ i = loop[s].total - 1)
                   THEN Append(@, <<i + 1, loop[s].total>>) ELSE @]
  /\ UNCHANGED <<audioVars, lookups, adjusted, ui, gui, app>>

\* one iteration of the for loop of _render_thread
GuiStep(s) ==
  /\ AppAt("render")
  /\ loop[s].kind = "gui" /\ loop[s].pc = "rendering"
  /\ loop[s].i < loop[s].total
  /\ LET i == loop[s].i
         args == GuiArgs(features, i)
     IN  /\ RenderFrame(s, args[1], args[2], args[3])
         /\ loop' = [loop EXCEPT
              ![s].i = i + 1,
              ![s].progress = IF i % 5 = 0 THEN Append(@, <<i + 1, loop[s].total>>) ELSE @]
  /\ UNCHANGED <<audioVars, lookups, adjusted, ui, gui, app>>

\* a generator that calls progress_callback before it yields the frame
GenNextReportFirst(s) ==
  /\ AppAt("render")
  /\ loop[s].kind = "generator" /\ loop[s].pc \in {"created", "yielded"}
  /\ LET i == IF loop[s].pc = "yielded" THEN loop[s].i + 1 ELSE 0
     IN  IF i < loop[s].total
           THEN LET args == GenArgs(features.overall_energy, features.bass_energy, i)
                IN  /\ RenderFrame(s, args[1], args[2], args[3])
                    /\ loop' = [loop EXCEPT ![s].pc = "yielded", ![s].i = i,
                                   ![s].progress = IF loop[s].cb
                                                     THEN Append(@, <<i + 1, loop[s].total>>)
                                                     ELSE @]
           ELSE /\ loop' = [loop EXCEPT ![s].pc = "exhausted", ![s].i = i]
                /\ UNCHANGED <<sessions, rng, calls, frames, steps>>
  /\ UNCHANGED <<audioVars, lookups, adjusted, ui, gui, app>>

\* next() on the generate_frames generator: the code from one yield (or from
\* the start) to the next yield (or to the end of the loop)
GenNext(s) ==
  /\ AppAt("render")
  /\ loop[s].kind = "generator" /\ loop[s].pc \in {"created", "yielded"}
  /\ LET resumed == loop[s].pc = "yielded"
         i == IF resumed THEN loop[s].i + 1 ELSE 0
         reported == IF resumed /\ loop[s].cb
                       THEN Append(loop[s].progress, <<loop[s].i + 1, loop[s].total>>)
                       ELSE loop[s].progress
     IN  IF i < loop[s].total
           THEN LET args == GenArgs(features.overall_energy, features.bass_energy, i)
                IN  /\ RenderFrame(s, args[1], args[2], args[3])
                    /\ loop' = [loop EXCEPT ![s].pc = "yielded", ![s].i = i,
                                            ![s].progress = reported]
           ELSE /\ loop' = [loop EXCEPT ![s].pc = "exhausted", ![s].i = i,
                                        ![s].progress = reported]
                /\ UNCHANGED <<sessions, rng, calls, frames, steps>>
  /\ UNCHANGED <<audioVars, lookups, adjusted, ui, gui, app>>

\* VideoComposer.compose on the frames collected by a finished loop
Compose(s) ==
  /\ AppAt("render")
  /\ app' = IF app.kind = "api" THEN app
                                ELSE [app EXCEPT !.pc = "ended", !.outcome = "complete"]
  /\ \/ loop[s].kind \in {"cli", "gui"} /\ loop[s].pc = "rendering"
          /\ loop[s].i = loop[s].total
     \/ loop[s].kind = "generator" /\ loop[s].pc = "exhausted"
  /\ loop' = [loop EXCEPT ![s].pc = "done"]
  /\ UNCHANGED <<audioVars, sessions, rng, calls, frames, steps, lookups, adjusted, ui, gui>>

---------------------------------------------------------------------------
(* Preset lookups and the GUI's effect controls                            *)

\* names that are not presets (the lookup is case sensitive)
UnknownNames == {"", "Energetic"}

\* at most MaxLookups calls of from_preset are followed
MaxLookups == 2

\* a call EffectConfig.from_preset(preset_name); lookups records the name, the
\* configuration returned and the number of frames session 1 had rendered
FromPresetCall(preset_name) ==
  /\ AppAt("preset")
  /\ app' = AppNext("preset")
  /\ Len(lookups) < MaxLookups
  /\ lookups' = Append(lookups, <<preset_name, from_preset(preset_name), Len(calls[1])>>)
  /\ UNCHANGED <<audioVars, chainVars, gui, adjusted, ui>>

\* _select_preset(preset_key): a click on a preset card
SelectPreset(preset_key) ==
  /\ gui' = [gui EXCEPT !.current_preset = preset_key,
                        !.effects = SelectPresetVars(preset_key),
                        !.synced = TRUE]
  /\ UNCHANGED <<audioVars, chainVars, lookups, adjusted, ui, app>>

\* the user edits an effect's controls at most MaxEdits times
MaxEdits == 1

\* the positions the intensity slider is moved to
SliderStops == {0, 650, Unit}

\* the user flips the switch of effect key (its BooleanVar)
ToggleEffect(key) ==
  /\ gui.edits < MaxEdits
  /\ gui' = [gui EXCEPT !.effects[key].enabled = ~@, !.synced = FALSE,
                        !.edits = @ + 1]
  /\ UNCHANGED <<audioVars, chainVars, lookups, adjusted, ui, app>>

\* the user moves the slider of effect key (its DoubleVar)
SlideEffect(key, value) ==
  /\ gui.edits < MaxEdits
  /\ gui.effects[key].intensity # value
  /\ gui' = [gui EXCEPT !.effects[key].intensity = value, !.synced = FALSE,
                        !.edits = @ + 1]
  /\ UNCHANGED <<audioVars, chainVars, lookups, adjusted, ui, app>>

\* _render_thread up to the construction of the renderer: the effect config is
\* built from the effect variables and handed to FrameRenderer
GuiBuildRenderer(s, size) ==
  /\ AppAt("renderer")
  /\ ~sessions[s].built
  /\ IF app.fault = "renderer"
       THEN /\ app.raised < MaxRaises
            /\ app' = AppRaise("renderer", 0)
            /\ UNCHANGED sessions
       ELSE /\ sessions' = [sessions EXCEPT ![s] =
                 FrameRendererInit(size[1], size[2], TRUE, BuildEffectConfig(gui.effects))]
            /\ app' = AppNext("renderer")
  /\ gui' = [gui EXCEPT !.built_preset = gui.current_preset,
                        !.built_synced = gui.synced]
  /\ UNCHANGED <<audioVars, rng, calls, frames, steps, loop, lookups, adjusted, ui>>

---------------------------------------------------------------------------
(* Effect configurations and audio levels the chain is driven with         *)

\* every effect switched on at full intensity, in the GUI's effect variables
AllOn == [key \in EffectKeys |-> [enabled |-> TRUE, intensity |-> Unit]]

\* the configurations: the ten presets, the dataclass default, and
\* configurations built by the GUI with one effect, or every effect, off
ChainConfigs ==
  {from_preset(name) : name \in PresetNames \cup UnknownNames}
    \cup {BuildEffectConfig([AllOn EXCEPT ![key].enabled = FALSE]) : key \in EffectKeys}
    \cup {BuildEffectConfig([key \in EffectKeys |-> [enabled |-> FALSE, intensity |-> Unit]])}

\* pairs <<overall_level, bass_level>>: silence, full level, a bass hit over a
\* quiet mix, and a loud mix with little bass
LevelPairs == {<<0, 0>>, <<Unit, Unit>>, <<300, 900>>, <<700, 200>>}

\* the chain is driven for MaxFrames frames
MaxFrames == 2

\* AudioFeatures holding given levels, one pair per frame
LevelFeatures(levels) ==
  [overall_energy |-> [i \in 1..Len(levels) |-> levels[i][1]],
   bass_energy |-> [i \in 1..Len(levels) |-> levels[i][2]],
   mid_energy |-> [i \in 1..Len(levels) |-> 0],
   high_energy |-> [i \in 1..Len(levels) |-> 0],
   duration |-> <<Len(levels), FPS>>,
   frame_count |-> Len(levels)]

\* a render loop of the command line, about to render frame 0 of `count`
CliLoopAt0(count) ==
  [kind |-> "cli", pc |-> "rendering", i |-> 0, cb |-> FALSE, progress |-> <<>>,
   total |-> count]

---------------------------------------------------------------------------
(* Specifications                                                          *)

\* SpecChain: two sessions on the same picture with the same configuration
\* run the command line's render loop over the same levels, in any
\* interleaving, sharing the process-wide random generator.
InitChain ==
  /\ fps = FPS
  /\ file = [n |-> 0, sr |-> 0, stft |-> <<>>]
  /\ y = None /\ sr = None /\ frame_count = MaxFrames
  /\ \E levels \in [1..MaxFrames -> LevelPairs] : features = LevelFeatures(levels)
  /\ \E size \in BaseSizes : \E config \in ChainConfigs :
       sessions = [s \in Sessions |-> FrameRendererInit(size[1], size[2], TRUE, config)]
  /\ rng = 0
  /\ calls = [s \in Sessions |-> <<>>]
  /\ frames = [s \in Sessions |-> <<>>]
  /\ steps = [s \in Sessions |-> <<>>]
  /\ loop = [s \in Sessions |-> CliLoopAt0(MaxFrames)]
  /\ app = AppInit("api", "none")
  /\ lookups = <<>>
  /\ adjusted = <<>> /\ ui = UiFresh
  /\ GuiFresh

NextChain == \E s \in Sessions : CliStep(s)

SpecChain == InitChain /\ [][NextChain]_vars

\* SpecRender: one session from the audio file to the encoder: load, extract,
\* build the renderer, run one of the three render loops, compose.
RenderTracks ==
  {SilentTrack(rate, FPS, 2) : rate \in SampleRates}
    \cup UNION {[n : {HopLength(rate, FPS) + 1}, sr : {rate},
                 stft : [1..2 -> WindowSpectra]] : rate \in SampleRates}

InitRender ==
  /\ fps = FPS
  /\ file \in RenderTracks
  /\ AudioFresh /\ ChainFresh /\ GuiFresh
  /\ app = AppInit("api", "none")
  /\ lookups = <<>>
  /\ adjusted = <<>> /\ ui = UiFresh

NextRender ==
  \/ Load
  \/ ExtractFeatures
  \/ \E size \in BaseSizes : \E name \in PresetNames :
       NewRenderer(1, size, TRUE, from_preset(name))
  \/ \E size \in BaseSizes : NewRenderer(1, size, FALSE, EffectConfigDefault)
  \/ \E kind \in {"cli", "gui", "generator"} : \E cb \in BOOLEAN : StartLoop(1, kind, cb)
  \/ CliStep(1)
  \/ GuiStep(1)
  \/ GenNext(1)
  \/ Compose(1)

SpecRender == InitRender /\ [][NextRender]_vars

\* SpecPreset: preset lookups, interleaved with a session that is built with
\* or without a looked-up configuration and renders.
InitPreset ==
  /\ fps = FPS
  /\ file = [n |-> 0, sr |-> 0, stft |-> <<>>]
  /\ y = None /\ sr = None /\ frame_count = 1
  /\ features = LevelFeatures(<<<<Unit, Unit>>>>)
  /\ ChainFresh /\ GuiFresh
  /\ app = AppInit("api", "none")
  /\ lookups = <<>>
  /\ adjusted = <<>> /\ ui = UiFresh

NextPreset ==
  \/ \E name \in PresetNames \cup UnknownNames : FromPresetCall(name)
  \/ \E size \in BaseSizes :
       /\ Len(lookups) > 0
       /\ NewRenderer(1, size, TRUE, lookups[Len(lookups)][2])
  \/ \E size \in BaseSizes : NewRenderer(1, size, FALSE, EffectConfigDefault)
  \/ StartLoop(1, "cli", FALSE)
  \/ CliStep(1)

SpecPreset == InitPreset /\ [][NextPreset]_vars

\* SpecGui: the user clicks preset cards and edits effect controls, and a
\* render thread builds its renderer from the effect variables.
InitGui ==
  /\ fps = FPS
  /\ file = [n |-> 0, sr |-> 0, stft |-> <<>>]
  /\ AudioFresh /\ ChainFresh /\ GuiFresh
  /\ app = AppInit("api", "none")
  /\ lookups = <<>>
  /\ adjusted = <<>> /\ ui = UiFresh

NextGui ==
  \/ \E key \in PresetNames : SelectPreset(key)
  \/ \E key \in EffectKeys : ToggleEffect(key)
  \/ \E key \in EffectKeys : \E value \in SliderStops : SlideEffect(key, value)
  \/ \E size \in BaseSizes : GuiBuildRenderer(1, size)

SpecGui == InitGui /\ [][NextGui]_vars

---------------------------------------------------------------------------
(* SpecApi: process_frame called directly on one session, with any levels  *)

\* the most process_frame calls made on the session
MaxCalls == 2

\* <<audio_level, bass_level>> passed by a caller that does not normalise:
\* below 0, above 1, and in range (two of them 0.05 apart, one at the
\* motion-blur threshold and one just above it)
ApiLevelPairs ==
  {<<0 - 500, 0 - 500>>, <<1500, 0>>, <<0, 1500>>, <<Unit, Unit>>, <<300, 900>>,
   <<950, 950>>, <<600, 0>>, <<650, 100>>}

\* a call renderer.render_frame(audio_level, bass_level, frame_idx) made by any
\* caller of the class
ProcessFrame(s, audio_level, bass_level, frame_idx) ==
  /\ sessions[s].built
  /\ Len(calls[s]) < MaxCalls
  /\ RenderFrame(s, audio_level, bass_level, frame_idx)
  /\ UNCHANGED <<audioVars, loop, lookups, adjusted, ui, gui, app>>

InitApi ==
  /\ fps = FPS
  /\ file = [n |-> 0, sr |-> 0, stft |-> <<>>]
  /\ AudioFresh
  /\ \E size \in BaseSizes : \E config \in ChainConfigs :
       sessions = [s \in Sessions |->
                     IF s = 1 THEN FrameRendererInit(size[1], size[2], TRUE, config)
                              ELSE NoSession]
  /\ rng = 0
  /\ calls = [s \in Sessions |-> <<>>]
  /\ frames = [s \in Sessions |-> <<>>]
  /\ steps = [s \in Sessions |-> <<>>]
  /\ loop = [s \in Sessions |-> NoLoop]
  /\ lookups = <<>>
  /\ adjusted = <<>> /\ ui = UiFresh
  /\ app = AppInit("api", "none")
  /\ GuiFresh

NextApi ==
  \E pair \in ApiLevelPairs : \E frame_idx \in {0, Len(calls[1])} :
    ProcessFrame(1, pair[1], pair[2], frame_idx)

SpecApi == InitApi /\ [][NextApi]_vars

---------------------------------------------------------------------------
(* SpecRun: one run of the command line or of the GUI's render thread      *)

\* Ctrl-C during a command-line run: KeyboardInterrupt unwinds generate_video
\* and main prints "Cancelled by user" and exits with status 130
Interrupt ==
  /\ app.kind = "cli" /\ app.pc # "ended"
  /\ app' = [app EXCEPT !.pc = "ended", !.outcome = "cancelled",
                        !.cancel_at = Len(frames[1])]
  /\ UNCHANGED <<audioVars, chainVars, lookups, adjusted, ui, gui>>

\* the user closes the window during a GUI run, the only way the window
\* offers to stop a render: mainloop returns, the process exits and the
\* daemon render thread dies with it, leaving no outcome
CloseWindow ==
  /\ app.kind = "gui" /\ app.pc # "ended"
  /\ app' = [app EXCEPT !.pc = "ended", !.cancel_at = Len(frames[1])]
  /\ UNCHANGED <<audioVars, chainVars, lookups, adjusted, ui, gui>>

\* short tracks (two analysis windows, two frames) at 44.1 kHz
RunTracks == {t \in RenderTracks : t.n < t.sr /\ t.sr = 44100}

InitRun ==
  /\ fps = FPS
  /\ file \in RunTracks
  /\ AudioFresh /\ ChainFresh /\ GuiFresh
  /\ lookups = <<>>
  /\ adjusted = <<>> /\ ui = UiFresh
  /\ \E kind \in {"cli", "gui"} : \E fault \in {"none", "load", "extract", "renderer"} :
       app = AppInit(kind, fault)

NextRun ==
  \/ Load
  \/ ExtractFeatures
  \/ \E name \in PresetNames : FromPresetCall(name)
  \/ \E size \in BaseSizes :
       /\ app.kind = "cli" /\ Len(lookups) > 0
       /\ NewRenderer(1, size, TRUE, lookups[Len(lookups)][2])
  \/ \E size \in BaseSizes : app.kind = "gui" /\ GuiBuildRenderer(1, size)
  \/ \E cb \in BOOLEAN : StartLoop(1, app.kind, cb)
  \/ CliStep(1)
  \/ GuiStep(1)
  \/ Compose(1)
  \/ Interrupt
  \/ CloseWindow

SpecRun == InitRun /\ [][NextRun]_vars

---------------------------------------------------------------------------
(* SpecAdjust: _adjust_length called on arrays of any length               *)

\* arrays of up to MaxAdjust entries are handed to _adjust_length
MaxAdjust == 3

\* the values of the entries: a middle level and the full level
AdjustValues == {300, Unit}

\* the arrays handed to _adjust_length
AdjustData == UNION {[1..len -> AdjustValues] : len \in 0..MaxAdjust}

\* self._adjust_length(data) on a processor whose track is loaded
AdjustLengthCall(data) ==
  /\ y # None
  /\ adjusted = <<>>
  /\ adjusted' = Append(adjusted, [data |-> data, count |-> frame_count,
                                   out |-> AdjustLength(data, frame_count)])
  /\ UNCHANGED <<audioVars, chainVars, lookups, gui, app, ui>>

\* the tracks at 44.1 kHz and the applications' frame rate
AdjustTracks == {t \in Tracks(FPS) : t.sr = 44100}

InitAdjust ==
  /\ fps = FPS
  /\ file \in AdjustTracks
  /\ AudioFresh /\ ChainFresh /\ GuiFresh
  /\ lookups = <<>>
  /\ adjusted = <<>> /\ ui = UiFresh
  /\ app = AppInit("api", "none")

NextAdjust ==
  \/ Load
  \/ ExtractFeatures
  \/ \E data \in AdjustData : AdjustLengthCall(data)

SpecAdjust == InitAdjust /\ [][NextAdjust]_vars

---------------------------------------------------------------------------
(* SpecUi: the generate button, the render threads and the progress queue  *)
(*                                                                         *)
(* ui.threads holds one record per thread started: pc is the statement     *)
(* group of _render_thread it is at ("load", "prepare", "frame", "encode",  *)
(* "done"), i the loop index, total the frame count of its track and fault  *)
(* the statement group that raises in it.  ui.queue is progress_queue,      *)
(* ui.put every message put so far and ui.applied every message             *)
(* _check_progress has handled, each <<type, thread, data>>.  ui.draining   *)
(* says the main thread is inside _check_progress's loop.                   *)

\* the generate button is clicked at most MaxClicks times
MaxClicks == 2

\* frame counts of the tracks rendered: one frame, and enough for a second
\* progress report (i % 5 == 0)
UiFrameCounts == {1, 6}

\* self.progress_queue.put(msg) for each msg of msgs, by thread t
QueuePut(u, msgs) == [u EXCEPT !.queue = @ \o msgs, !.put = @ \o msgs]

\* a render thread that dies on an exception without reporting it
RenderThreadStepSilent(t) ==
  LET th == ui.threads[t]
  IN  /\ th.pc # "done"
      /\ ui' = IF th.fault = th.pc
                 THEN [ui EXCEPT !.threads[t].pc = "done"]
                 ELSE [QueuePut(ui, <<<<"status", t, th.pc>>>>) EXCEPT !.threads[t].pc =
                         CASE th.pc = "load" -> "prepare"
                           [] th.pc = "prepare" -> "frame"
                           [] th.pc = "frame" -> "encode"
                           [] OTHER -> "done"]
      /\ UNCHANGED <<audioVars, chainVars, lookups, gui, app, adjusted>>

\* _render_thread: the next statement group of thread t.  A group that raises
\* puts nothing of its own; the except clause puts ("error", str(e)) and the
\* thread ends.  The terminal put is the thread's last statement.
RenderThreadStep(t) ==
  LET th == ui.threads[t]
      failed == [QueuePut(ui, <<<<"error", t, th.pc>>>>) EXCEPT !.threads[t].pc = "done"]
  IN  /\ th.pc # "done"
      /\ ui' =
           CASE th.pc = "load" ->
                  \* status, progress 0.05, then load and extract_features
                  LET u1 == QueuePut(ui, <<<<"status", t, "load">>, <<"progress", t, 5>>>>)
                  IN  IF th.fault = "load"
                        THEN [QueuePut(u1, <<<<"error", t, "load">>>>) EXCEPT
                                !.threads[t].pc = "done"]
                        ELSE [QueuePut(u1, <<<<"status", t, "analyzing">>, <<"progress", t, 10>>>>)
                                EXCEPT !.threads[t].pc = "prepare"]
             [] th.pc = "prepare" ->
                  \* status, progress 0.15, then FrameRenderer(...)
                  LET u1 == QueuePut(ui, <<<<"status", t, "prepare">>, <<"progress", t, 15>>>>)
                  IN  IF th.fault = "prepare"
                        THEN [QueuePut(u1, <<<<"error", t, "prepare">>>>) EXCEPT
                                !.threads[t].pc = "done"]
                        ELSE [u1 EXCEPT !.threads[t].pc = "frame"]
             [] th.pc = "frame" ->
                  \* one pass of the frame loop, or its end
                  IF th.i >= th.total THEN [ui EXCEPT !.threads[t].pc = "encode"]
                  ELSE IF th.fault = "frame" /\ th.i = th.total - 1 THEN failed
                  ELSE IF th.i % 5 = 0
                    THEN [QueuePut(ui, <<<<"progress", t, 15 + (65 * th.i) \div th.total>>,
                                        <<"status", t, th.i + 1>>>>)
                            EXCEPT !.threads[t].i = @ + 1]
                    ELSE [ui EXCEPT !.threads[t].i = @ + 1]
             [] OTHER ->
                  \* status, progress 0.85, compose, ("complete", output_path)
                  LET u1 == QueuePut(ui, <<<<"status", t, "encode">>, <<"progress", t, 85>>>>)
                  IN  IF th.fault = "encode"
                        THEN [QueuePut(u1, <<<<"error", t, "encode">>>>) EXCEPT
                                !.threads[t].pc = "done"]
                        ELSE [QueuePut(u1, <<<<"complete", t, "output">>>>) EXCEPT
                                !.threads[t].pc = "done"]
      /\ UNCHANGED <<audioVars, chainVars, lookups, gui, app, adjusted>>

\* a generate handler that does not look at is_rendering
StartGenerationUnguarded(valid, total, fault) ==
  /\ ~ui.draining
  /\ ui.clicks < MaxClicks
  /\ ui' = IF ~valid THEN [ui EXCEPT !.clicks = @ + 1]
           ELSE [ui EXCEPT !.clicks = @ + 1, !.is_rendering = TRUE, !.button = "disabled",
                           !.threads = Append(@, [pc |-> "load", i |-> 0, total |-> total,
                                                  fault |-> fault])]
  /\ UNCHANGED <<audioVars, chainVars, lookups, gui, app, adjusted>>

\* _start_generation: a click on the generate button (or a direct call of
\* its command); valid is the result of _validate_inputs
StartGeneration(valid, total, fault) ==
  /\ ~ui.draining
  /\ ui.clicks < MaxClicks
  /\ ui' = IF ui.is_rendering \/ ~valid THEN [ui EXCEPT !.clicks = @ + 1]
           ELSE [ui EXCEPT !.clicks = @ + 1, !.is_rendering = TRUE, !.button = "disabled",
                           !.threads = Append(@, [pc |-> "load", i |-> 0, total |-> total,
                                                  fault |-> fault])]
  /\ UNCHANGED <<audioVars, chainVars, lookups, gui, app, adjusted>>

\* _check_progress, one pass of its loop: get_nowait returns a message and
\* the message is handled
CheckProgressGet ==
  /\ ui.queue # <<>>
  /\ LET msg == Head(ui.queue)
         u1 == [ui EXCEPT !.queue = Tail(@), !.applied = Append(@, msg), !.draining = TRUE]
     IN  ui' = IF msg[1] \in {"complete", "error"}
                 THEN [u1 EXCEPT !.is_rendering = FALSE, !.button = "normal"]
                 ELSE u1
  /\ UNCHANGED <<audioVars, chainVars, lookups, gui, app, adjusted>>

\* _check_progress: get_nowait raises queue.Empty, the loop ends and the
\* method schedules itself again with self.after(50, ...)
CheckProgressEmpty ==
  /\ ui.queue = <<>> /\ ui.draining
  /\ ui' = [ui EXCEPT !.draining = FALSE]
  /\ UNCHANGED <<audioVars, chainVars, lookups, gui, app, adjusted>>

InitUi ==
  /\ fps = FPS
  /\ file = [n |-> 0, sr |-> 0, stft |-> <<>>]
  /\ AudioFresh /\ ChainFresh /\ GuiFresh
  /\ app = AppInit("api", "none")
  /\ lookups = <<>>
  /\ adjusted = <<>> /\ ui = UiFresh

RenderThreads == \E t \in 1..MaxClicks : t <= Len(ui.threads) /\ RenderThreadStep(t)

CheckProgress == CheckProgressGet \/ CheckProgressEmpty

NextUi ==
  \/ \E valid \in BOOLEAN : \E total \in UiFrameCounts :
       \E fault \in {"none", "load", "prepare", "frame", "encode"} :
         StartGeneration(valid, total, fault)
  \/ RenderThreads
  \/ CheckProgress

SpecUi == InitUi /\ [][NextUi]_vars

\* the render threads run to their end and Tk keeps calling _check_progress
SpecUiFair == SpecUi /\ WF_vars(RenderThreads) /\ WF_vars(CheckProgress)

---------------------------------------------------------------------------
(* SpecReconf: a renderer whose effect configuration is replaced           *)

\* set_effect_config is called at most MaxReconfigs times
MaxReconfigs == 1

\* the configurations a renderer is built with and switched to
ReconfConfigs == {from_preset(name) : name \in {"subtle", "aggressive", "dreamy"}}

\* a set_effect_config that swaps the config and keeps the chain's state
SetEffectConfigKeepState(s, config) ==
  /\ sessions[s].built
  /\ Len(sessions[s].reconf) < MaxReconfigs
  /\ sessions' = [sessions EXCEPT
       ![s].config = config, ![s].given = TRUE,
       ![s].reconf = Append(@, [at |-> Len(calls[s]), config |-> config,
                                size |-> <<sessions[s].width, sessions[s].height>>])]
  /\ UNCHANGED <<audioVars, rng, calls, frames, steps, loop, lookups, gui, app, adjusted, ui>>

\* FrameRenderer.set_effect_config(config): self.config = config and a new
\* ImageEffectsProcessor over the same background.  reconf notes the call:
\* the number of frames rendered before it, the config passed and the
\* resolution at that moment.
SetEffectConfig(s, config) ==
  /\ sessions[s].built
  /\ Len(sessions[s].reconf) < MaxReconfigs
  /\ sessions' = [sessions EXCEPT
       ![s].config = config, ![s].given = TRUE,
       ![s].prev = <<>>, ![s].cache = <<>>,
       ![s].reconf = Append(@, [at |-> Len(calls[s]), config |-> config,
                                size |-> <<sessions[s].width, sessions[s].height>>])]
  /\ UNCHANGED <<audioVars, rng, calls, frames, steps, loop, lookups, gui, app, adjusted, ui>>

InitReconf ==
  /\ fps = FPS
  /\ file = [n |-> 0, sr |-> 0, stft |-> <<>>]
  /\ AudioFresh /\ GuiFresh
  /\ \E size \in BaseSizes : \E config \in ReconfConfigs :
       sessions = [s \in Sessions |->
                     IF s = 1 THEN FrameRendererInit(size[1], size[2], TRUE, config)
                     ELSE NoSession]
  /\ rng = 0
  /\ calls = [s \in Sessions |-> <<>>]
  /\ frames = [s \in Sessions |-> <<>>]
  /\ steps = [s \in Sessions |-> <<>>]
  /\ loop = [s \in Sessions |-> NoLoop]
  /\ lookups = <<>>
  /\ adjusted = <<>> /\ ui = UiFresh
  /\ app = AppInit("api", "none")

NextReconf ==
  \/ \E pair \in LevelPairs : ProcessFrame(1, pair[1], pair[2], Len(calls[1]))
  \/ \E config \in ReconfConfigs : SetEffectConfig(1, config)

SpecReconf == InitReconf /\ [][NextReconf]_vars

---------------------------------------------------------------------------
(* Properties of the audio feature extractor                               *)

\* the raw energy array of one band, as extract_features computes it
RawEnergy(band) ==
  [w \in 1..Len(file.stft) |-> BandEnergy(file.stft[w], file.sr, band)]

Bands == {"overall", "bass", "mid", "high"}

Envelope(band) ==
  CASE band = "overall" -> features.overall_energy
    [] band = "bass" -> features.bass_energy
    [] band = "mid" -> features.mid_energy
    [] band = "high" -> features.high_energy

\* C1: once the track is loaded, frame_count is the least integer c with
\* c >= duration * fps (duration = n / sr), and once the features are
\* extracted all four envelopes have exactly frame_count entries, whatever
\* the number of analysis windows.
C1_FrameCountAndLengths ==
  /\ y # None =>
       /\ frame_count * file.sr >= file.n * fps
       /\ (frame_count - 1) * file.sr < file.n * fps
  /\ features # <<>> =>
       /\ features.frame_count = frame_count
       /\ \A band \in Bands : Len(Envelope(band)) = frame_count

\* C1 witness: features extracted from a track whose number of analysis
\* windows differs from frame_count
C1_Witness ==
  /\ features # <<>>
  /\ Len(file.stft) # frame_count
  /\ frame_count >= 2

\* C2: the output of _normalize_and_smooth on every band's raw energy array
\* lies in [0, 1], and is all zeros when the raw array is constant (max - min
\* not above 1e-8); so do the envelopes extract_features stores.
C2_NormalizedRange ==
  \A band \in Bands :
    LET raw == RawEnergy(band)
        out == NormalizeAndSmooth(raw)
        flat == SeqMax(raw) - SeqMin(raw) <= NormEps
    IN  /\ \A i \in 1..Len(out) : out[i] >= 0 /\ out[i] <= Unit
        /\ flat => \A i \in 1..Len(out) : out[i] = 0
        /\ features # <<>> =>
             /\ \A i \in 1..Len(Envelope(band)) :
                  Envelope(band)[i] >= 0 /\ Envelope(band)[i] <= Unit
             /\ flat => \A i \in 1..Len(Envelope(band)) : Envelope(band)[i] = 0

\* C2 witness: extracted features in which one band's raw array is constant
\* and not zero while another band has a non-zero envelope
C2_Witness ==
  /\ features # <<>>
  /\ \E band \in Bands :
       /\ SeqMax(RawEnergy(band)) = SeqMin(RawEnergy(band))
       /\ SeqMax(RawEnergy(band)) > 0
  /\ \E band \in Bands : \E i \in 1..Len(Envelope(band)) : Envelope(band)[i] > 0

---------------------------------------------------------------------------
(* Properties of the effect chain and the render loops                     *)

\* C3: two fresh sessions with the same picture and configuration, driven by
\* the same sequence of process_frame calls, leave the same smoothing state
\* and return the same image after every call, however their calls
\* interleave on the shared random generator.
C3_Determinism ==
  \A k \in 1..Min(Len(calls[1]), Len(calls[2])) :
    /\ calls[1][k].audio_level = calls[2][k].audio_level
    /\ calls[1][k].bass_level = calls[2][k].bass_level
    /\ calls[1][k].frame_idx = calls[2][k].frame_idx
    /\ calls[1][k].prev = calls[2][k].prev
    /\ calls[1][k].out = calls[2][k].out

\* C3 witness: both sessions have rendered two frames, the second shaken by a
\* non-zero horizontal offset
C3_Witness ==
  /\ Len(calls[1]) >= 2 /\ Len(calls[2]) >= 2
  /\ \E j \in 1..Len(calls[1][2].out.ops) :
       /\ calls[1][2].out.ops[j][1] = "shake"
       /\ calls[1][2].out.ops[j][2] # 0

\* C4: in each of the three render loops the k-th process_frame call is
\* process_frame(overall[k], bass[k], k) for k = 0, 1, ..., the k-th frame
\* delivered is the image that call returned, never more than frame_count
\* frames are produced, and a finished loop has produced exactly frame_count.
C4_FramesInOrder ==
  \A s \in Sessions :
    /\ Len(frames[s]) = Len(calls[s])
    /\ \A k \in 1..Len(calls[s]) :
         /\ calls[s][k].frame_idx = k - 1
         /\ calls[s][k].audio_level = features.overall_energy[k]
         /\ calls[s][k].bass_level = features.bass_energy[k]
         /\ frames[s][k] = calls[s][k].out
    /\ features # <<>> => Len(calls[s]) <= features.frame_count
    /\ loop[s].pc = "done" => Len(frames[s]) = features.frame_count

\* C4 witness: a generate_frames loop has finished after two or more frames
\* on features whose overall and bass levels differ on some frame
C4_Witness ==
  /\ loop[1].kind = "generator" /\ loop[1].pc = "done"
  /\ Len(frames[1]) >= 2
  /\ \E k \in 1..Len(calls[1]) :
       features.overall_energy[k] # features.bass_energy[k]

\* C5: in every process_frame call, a step whose effect is disabled returns
\* its input image unchanged.
C5_DisabledIsIdentity ==
  \A s \in Sessions :
    steps[s] # <<>> =>
      \A k \in 1..Len(StepEffect) :
        ~sessions[s].config[EnabledAttr(StepEffect[k])] => steps[s][k + 1] = steps[s][k]

\* C5 witness: a session with scale disabled has rendered its second frame at
\* a non-zero level and other steps did transform the image
C5_Witness ==
  \E s \in Sessions :
    /\ Len(calls[s]) >= 2
    /\ ~sessions[s].config.scale_enabled
    /\ calls[s][2].audio_level > 0
    /\ steps[s][2] = steps[s][1]
    /\ steps[s][Len(steps[s])].ops # <<>>

\* the 2-second silent track of the scenario
SilentSession == \E rate \in SampleRates : file = SilentTrack(rate, FPS, 2)

\* what a frame of a silent session must look like, but for the vignette
SilentFrameAtMinimum(c, p) ==
  /\ c.scale_enabled => p["scale"] = c.scale_min
  /\ c.saturation_enabled => p["saturation"] = c.saturation_min
  /\ c.contrast_enabled => p["contrast"] = c.contrast_min
  /\ c.brightness_enabled => p["brightness"] = c.brightness_min
  /\ c.hue_enabled => p["hue"] = 0
  /\ c.chromatic_enabled => p["chromatic"] = 0
  /\ c.glow_enabled => p["glow"] = 0

SilentSessionShape ==
  /\ y # None => frame_count = 60
  /\ features # <<>> =>
       \A k \in 1..Len(features.overall_energy) :
         features.overall_energy[k] = 0 /\ features.bass_energy[k] = 0
  /\ loop[1].pc = "done" => Len(frames[1]) = 60

\* C6 as stated: in the silent 2-second, 30 fps session 60 frames are produced
\* and on each one every enabled audio-driven effect is at its minimum and the
\* vignette strength is exactly vignette_max.
C6_Original ==
  SilentSession =>
    /\ SilentSessionShape
    /\ \A k \in 1..Len(calls[1]) :
         /\ SilentFrameAtMinimum(sessions[1].config, calls[1][k].prev)
         /\ sessions[1].config.vignette_enabled =>
              calls[1][k].prev["vignette"] = sessions[1].config.vignette_max

\* C6, amended: ... and the vignette strength is
\* vignette_min + (vignette_max - vignette_min) * vignette_intensity (to the
\* last digit of the fixed-point grid).
C6_SilentSession ==
  SilentSession =>
    /\ SilentSessionShape
    /\ \A k \in 1..Len(calls[1]) :
         /\ SilentFrameAtMinimum(sessions[1].config, calls[1][k].prev)
         /\ sessions[1].config.vignette_enabled =>
              Abs(calls[1][k].prev["vignette"] * Unit
                  - (sessions[1].config.vignette_min * Unit
                     + (sessions[1].config.vignette_max - sessions[1].config.vignette_min)
                         * sessions[1].config.vignette_intensity)) < Unit

\* C6 witness: the silent session has delivered its 60 frames to the encoder,
\* with a vignette strictly between vignette_min and vignette_max
C6_Witness ==
  /\ SilentSession
  /\ loop[1].pc = "done"
  /\ Len(frames[1]) = 60
  /\ sessions[1].config.vignette_enabled
  /\ calls[1][60].prev["vignette"] > sessions[1].config.vignette_min
  /\ calls[1][60].prev["vignette"] < sessions[1].config.vignette_max

\* the first call of a session is process_frame(1.0, 1.0, 0) on a chain
\* configured with the 'aggressive' preset
AggressiveFirstCall(s) ==
  /\ Len(calls[s]) >= 1
  /\ sessions[s].config = from_preset("aggressive")
  /\ calls[s][1].audio_level = Unit /\ calls[s][1].bass_level = Unit
  /\ calls[s][1].frame_idx = 0

\* C7 as stated: that call applies scale at scale_max (1.15) and returns an
\* image of the base picture's size that differs from the base picture.
C7_Original ==
  \A s \in Sessions :
    AggressiveFirstCall(s) =>
      /\ calls[s][1].prev["scale"] = sessions[s].config.scale_max
      /\ calls[s][1].out.size = <<sessions[s].width, sessions[s].height>>
      /\ calls[s][1].out # BaseImage(sessions[s].width, sessions[s].height)

\* C7, amended: that call applies scale at
\* scale_min + (scale_max - scale_min) * scale_intensity = 1.12, below
\* scale_max, and returns an image of the base picture's size to which the
\* scale step (and so at least one transform) has been applied.
C7_AggressiveFirstFrame ==
  \A s \in Sessions :
    AggressiveFirstCall(s) =>
      /\ calls[s][1].prev["scale"] = 1120
      /\ calls[s][1].prev["scale"] < sessions[s].config.scale_max
      /\ calls[s][1].out.size = <<sessions[s].width, sessions[s].height>>
      /\ calls[s][1].out # BaseImage(sessions[s].width, sessions[s].height)
      /\ calls[s][1].out.ops[1] =
           <<"scale", (sessions[s].width * 1120) \div Unit,
             (sessions[s].height * 1120) \div Unit>>

\* C7 witness: such a first call has been made
C7_Witness ==
  \E s \in Sessions : AggressiveFirstCall(s) /\ Len(calls[s]) = 1

---------------------------------------------------------------------------
(* Properties of the preset catalogue and of the GUI's effect controls     *)

C10_SummaryRoundTrip ==
  /\ gui.synced =>
       to_dict(BuildEffectConfig(gui.effects)) = to_dict(from_preset(gui.current_preset))
  /\ sessions[1].built /\ gui.built_synced =>
       to_dict(sessions[1].config) = to_dict(from_preset(gui.built_preset))

\* C10 witness: a renderer was built right after selecting 'aggressive'; its
\* configuration has the preset's summary but not the preset's range bounds
C10_Witness ==
  /\ sessions[1].built /\ gui.built_synced
  /\ gui.built_preset = "aggressive"
  /\ sessions[1].config # from_preset("aggressive")
  /\ sessions[1].config.shake_intensity # sessions[1].config.scale_intensity

---------------------------------------------------------------------------
(* Properties of the smoothing, the levels and the frame geometry          *)

\* the two ends of the range an effect's smoothed property is configured to
\* move in, in the units of self._prev_values
SmoothEnds(c, key) ==
  CASE key = "scale" -> <<c.scale_min, c.scale_max>>
    [] key = "saturation" -> <<c.saturation_min, c.saturation_max>>
    [] key = "contrast" -> <<c.contrast_min, c.contrast_max>>
    [] key = "brightness" -> <<c.brightness_min, c.brightness_max>>
    [] key = "hue" -> <<0, c.hue_max_shift>>
    [] key = "vignette" -> <<c.vignette_min, c.vignette_max>>
    [] key = "glow" -> <<c.glow_radius_min * Unit, c.glow_radius_max * Unit>>
    [] key = "chromatic" -> <<0, c.chromatic_max_offset * Unit>>
    [] key \in {"shake_x", "shake_y"} ->
         <<0 - c.shake_max_pixels * Unit, c.shake_max_pixels * Unit>>

InConfiguredRange(c, key, value) ==
  /\ Min(SmoothEnds(c, key)[1], SmoothEnds(c, key)[2]) <= value
  /\ value <= Max(SmoothEnds(c, key)[1], SmoothEnds(c, key)[2])

\* C11: after every process_frame call of a render loop, every value
\* _smooth_value has emitted (scale, saturation, contrast, brightness, hue,
\* vignette, glow, chromatic, shake x and y) lies within the configured range
\* of its effect.
C11_SmoothingBounded ==
  \A s \in Sessions : \A k \in 1..Len(calls[s]) :
    \A key \in DOMAIN calls[s][k].prev :
      InConfiguredRange(sessions[s].config, key, calls[s][k].prev[key])

\* C11 witness: a quiet frame left scale at scale_min and the loud frame after
\* it moved scale only part of the way, with a shake offset smoothed as well
C11_Witness ==
  \E s \in Sessions :
    /\ Len(calls[s]) >= 2
    /\ "scale" \in DOMAIN calls[s][1].prev
    /\ calls[s][1].prev["scale"] = sessions[s].config.scale_min
    /\ calls[s][2].prev["scale"] > sessions[s].config.scale_min
    /\ calls[s][2].prev["scale"] < sessions[s].config.scale_max
    /\ "shake_x" \in DOMAIN calls[s][2].prev
    /\ calls[s][2].prev["shake_x"] # 0

\* C12 as stated: whatever levels process_frame is called with, below 0 and
\* above 1 included, every effect is driven by a level in [0,1], so every
\* controlled value stays within its configured range.
C12_Original ==
  \A k \in 1..Len(calls[1]) :
    \A key \in DOMAIN calls[1][k].prev :
      InConfiguredRange(sessions[1].config, key, calls[1][k].prev[key])

\* C13: every image process_frame returns, and every intermediate image of
\* the call, has exactly the base picture's width and height, for every
\* configuration, levels in or out of [0,1], every frame index and history.
C13_SameResolution ==
  \A s \in Sessions :
    /\ \A k \in 1..Len(calls[s]) :
         calls[s][k].out.size = <<sessions[s].width, sessions[s].height>>
    /\ \A k \in 1..Len(steps[s]) :
         steps[s][k].size = <<sessions[s].width, sessions[s].height>>

\* C13 witness: one call resized the picture to less than its width before
\* cropping, and the next pasted it at an offset with a negative component
C13_Witness ==
  /\ Len(calls[1]) = 2
  /\ \E j \in 1..Len(calls[1][1].out.ops) :
       /\ calls[1][1].out.ops[j][1] = "scale"
       /\ calls[1][1].out.ops[j][2] < sessions[1].width
  /\ \E j \in 1..Len(calls[1][2].out.ops) :
       /\ calls[1][2].out.ops[j][1] = "shake"
       /\ calls[1][2].out.ops[j][2] < 0 \/ calls[1][2].out.ops[j][3] < 0

---------------------------------------------------------------------------
(* Properties of progress reporting, cancellation and failure              *)

\* the reports <<1, total>>, ..., <<n, total>>
ReportsUpTo(n, total) == [k \in 1..n |-> <<k, total>>]

\* C14 as stated: a consumer of generate_frames (with an observer) that has
\* received all frame_count frames has received frame_count reports, the last
\* being <<total, total>>.
C14_Original ==
  \A s \in Sessions :
    (/\ loop[s].kind = "generator" /\ loop[s].cb
     /\ loop[s].total > 0 /\ Len(frames[s]) = loop[s].total) =>
      /\ Len(loop[s].progress) = loop[s].total
      /\ loop[s].progress[loop[s].total] = <<loop[s].total, loop[s].total>>

\* C14, amended: the observer is called with <<i + 1, total>> when the
\* consumer resumes the generator after frame i, once per frame and in
\* increasing order: a consumer holding k frames has received k - 1 reports
\* until it asks for the next item, and frame_count reports, the last being
\* <<total, total>>, once the generator is exhausted.  Without an observer
\* nothing is reported.
C14_ProgressReports ==
  \A s \in Sessions :
    loop[s].kind = "generator" =>
      /\ ~loop[s].cb => loop[s].progress = <<>>
      /\ loop[s].cb /\ loop[s].pc = "created" => loop[s].progress = <<>>
      /\ loop[s].cb /\ loop[s].pc = "yielded" =>
           loop[s].progress = ReportsUpTo(Len(frames[s]) - 1, loop[s].total)
      /\ loop[s].cb /\ loop[s].pc \in {"exhausted", "done"} =>
           /\ Len(frames[s]) = loop[s].total
           /\ loop[s].progress = ReportsUpTo(loop[s].total, loop[s].total)

\* C14 witness: a generator with an observer has been exhausted after two or
\* more frames and the last report is <<total, total>>
C14_Witness ==
  /\ loop[1].kind = "generator" /\ loop[1].cb /\ loop[1].pc = "exhausted"
  /\ loop[1].total >= 2
  /\ Len(loop[1].progress) = loop[1].total
  /\ loop[1].progress[loop[1].total] = <<loop[1].total, loop[1].total>>

\* C15 as stated: once the user has asked a run to stop while frames are
\* being generated, no further frame is rendered, the encoder is not run,
\* and the run ends with the outcome "cancelled".
C15_Original ==
  app.cancel_at # None /\ loop[1].kind # "none" =>
    /\ Len(frames[1]) = app.cancel_at
    /\ loop[1].pc # "done"
    /\ app.pc = "ended" /\ app.outcome = "cancelled"

\* C16: in a command-line or GUI run, a failure of audio loading, feature
\* extraction or renderer construction ends the run at once with one error
\* outcome: no process_frame call and no encoder call is made in that run;
\* and a frame is only ever rendered after all three have succeeded.
C16_AbortBeforeFrames ==
  /\ app.outcome = "error" =>
       /\ app.failed \in {"load", "extract", "renderer"}
       /\ app.pc = "ended" /\ app.raised = 1
       /\ calls[1] = <<>> /\ frames[1] = <<>>
       /\ loop[1].kind = "none" /\ loop[1].pc # "done"
  /\ app.fault # "none" => calls[1] = <<>> /\ loop[1].pc # "done"
  /\ calls[1] # <<>> =>
       /\ y # None /\ features # <<>> /\ sessions[1].built
       /\ app.raised = 0

\* C16 witness: a GUI run whose track was loaded and analysed ended in error
\* when the renderer could not be built
C16_Witness ==
  /\ app.kind = "gui" /\ app.outcome = "error" /\ app.failed = "renderer"
  /\ features # <<>>
  /\ ~sessions[1].built

---------------------------------------------------------------------------
(* Claims C18 to C20: order and drivers of the effect steps                *)

\* the ops of image b are those of image a, or those of a followed by one
\* application of the named effect
StepOf(a, b, name) ==
  \/ b.ops = a.ops
  \/ /\ Len(b.ops) = Len(a.ops) + 1
     /\ SubSeq(b.ops, 1, Len(a.ops)) = a.ops
     /\ b.ops[Len(b.ops)][1] = name

\* C18: in every process_frame call the eleven steps run in the order scale,
\* shake, warp, saturation, contrast, brightness, hue, glow, chromatic, blur,
\* vignette, whatever the configuration and the levels: the call starts from
\* a copy of the base image, step k works on the image step k-1 produced and
\* applies at most its own effect to it, and the image returned is the one
\* the vignette step produced.
C18_FixedOrder ==
  \A s \in Sessions :
    calls[s] # <<>> =>
      /\ Len(steps[s]) = Len(StepEffect) + 1
      /\ steps[s][1].ops = <<>>
      /\ \A k \in 1..Len(StepEffect) : StepOf(steps[s][k], steps[s][k + 1], StepEffect[k])
      /\ calls[s][Len(calls[s])].out = steps[s][Len(steps[s])]

\* C18 witness: a call in which scale came first and motion blur and then
\* vignette came last, with other effects between them
C18_Witness ==
  /\ calls[1] # <<>>
  /\ LET ops == steps[1][Len(steps[1])].ops
     IN  /\ Len(ops) >= 6
         /\ ops[1][1] = "scale"
         /\ ops[Len(ops) - 1][1] = "blur"
         /\ ops[Len(ops)][1] = "vignette"

\* the ops of the named effect in an image
OpsNamed(img, name) == {img.ops[i] : i \in {j \in 1..Len(img.ops) : img.ops[j][1] = name}}

\* the first process_frame call of session s on a fresh chain used level
\* `imp` for scale, shake, warp, brightness, glow, chromatic aberration and
\* motion blur, level `a` for saturation, contrast and hue, and level `v` for
\* the vignette (whose factor is the complement of its level).  On a fresh
\* chain the smoothed value of an effect is its target, so the value kept in
\* prev shows the level the step was given.  (Shake takes its factor from
\* scale_intensity, as _apply_shake does.)
FirstCallDrivers(s, a, imp, v) ==
  LET c == sessions[s].config
      prev == calls[s][1].prev
      out == calls[s][1].out
      idx == calls[s][1].frame_idx
      shake_max == IntOf(c.shake_max_pixels * Mul(imp, c.scale_intensity))
      warp == Mul(c.warp_strength, Mul(imp, c.warp_intensity))
      blur == IF imp < 600 THEN 0
              ELSE IntOf(Lerp(0, c.blur_max_radius * Unit,
                              Mul(((imp - 600) * Unit) \div 400, c.blur_intensity)))
  IN  /\ c.scale_enabled =>
           prev["scale"] = Lerp(c.scale_min, c.scale_max, Mul(imp, c.scale_intensity))
      /\ c.shake_enabled => (OpsNamed(out, "shake") # {} <=> shake_max >= 1)
      /\ c.warp_enabled =>
           OpsNamed(out, "warp") = IF warp >= 1 THEN {<<"warp", warp, idx>>} ELSE {}
      /\ c.saturation_enabled =>
           prev["saturation"] = Lerp(c.saturation_min, c.saturation_max,
                                     Mul(a, c.saturation_intensity))
      /\ c.contrast_enabled =>
           prev["contrast"] = Lerp(c.contrast_min, c.contrast_max, Mul(a, c.contrast_intensity))
      /\ c.brightness_enabled =>
           prev["brightness"] = Lerp(c.brightness_min, c.brightness_max,
                                     Mul(imp, c.brightness_intensity))
      /\ c.hue_enabled => prev["hue"] = Lerp(0, c.hue_max_shift, Mul(a, c.hue_intensity))
      /\ c.glow_enabled =>
           prev["glow"] = Unit * IntOf(Lerp(c.glow_radius_min * Unit, c.glow_radius_max * Unit,
                                            Mul(imp, c.glow_intensity)))
      /\ c.chromatic_enabled =>
           prev["chromatic"] = Unit * IntOf(Lerp(0, c.chromatic_max_offset * Unit,
                                                 Mul(imp, c.chromatic_intensity)))
      /\ c.blur_enabled =>
           OpsNamed(out, "blur") = IF blur >= 1 THEN {<<"blur", blur, 0>>} ELSE {}
      /\ c.vignette_enabled =>
           prev["vignette"] = Lerp(c.vignette_min, c.vignette_max,
                                   Mul(Unit - v, c.vignette_intensity))

\* min(1, max(overall_level, bass_level * 1.2))
ImpactOf(a, b) ==
  LET boosted == (b * 12 * 100) \div Unit
  IN  IF a >= boosted THEN (IF a > Unit THEN Unit ELSE a)
      ELSE (IF boosted > Unit THEN Unit ELSE boosted)

\* C19 as stated: impact = min(1, max(overall_level, bass_level * 1.2));
\* scale, shake, warp, brightness, glow, chromatic aberration, motion blur and
\* vignette are driven by impact, saturation, contrast and hue by
\* overall_level.
C19_Original ==
  calls[1] # <<>> =>
    LET a == calls[1][1].audio_level
        imp == ImpactOf(a, calls[1][1].bass_level)
    IN  FirstCallDrivers(1, a, imp, imp)

\* C19, amended: impact = min(1, max(overall_level, bass_level * 1.2));
\* scale, shake, warp, brightness, glow, chromatic aberration and motion blur
\* are driven by impact; saturation, contrast, hue and the vignette are
\* driven by overall_level.
C19_Drivers ==
  calls[1] # <<>> =>
    LET a == calls[1][1].audio_level
        imp == ImpactOf(a, calls[1][1].bass_level)
    IN  FirstCallDrivers(1, a, imp, a)

\* C19 witness: a bass hit over a quiet mix (impact 1.0, overall 0.3) on a
\* chain with scale, saturation and vignette enabled: the scale follows the
\* impact, the saturation and the vignette follow the overall level
C19_Witness ==
  /\ calls[1] # <<>>
  /\ calls[1][1].audio_level = 300 /\ calls[1][1].bass_level = 900
  /\ LET c == sessions[1].config
         prev == calls[1][1].prev
     IN  /\ c.scale_enabled /\ c.saturation_enabled /\ c.vignette_enabled
         /\ c.scale_intensity > 0 /\ c.vignette_intensity > 0
         /\ prev["scale"] = Lerp(c.scale_min, c.scale_max, c.scale_intensity)
         /\ prev["vignette"] > Lerp(c.vignette_min, c.vignette_max, 0)

\* C20 as stated, for the shake step: with levels in [0,1], the shake of a
\* call is sized by impact * shake_intensity, the effect's own intensity: the
\* image is displaced exactly when int(shake_max_pixels * impact *
\* shake_intensity) >= 1, and by no more than that many pixels either way.
C20_Original ==
  calls[1] # <<>> =>
    LET c == sessions[1].config
        a == calls[1][1].audio_level
        b == calls[1][1].bass_level
        own == IntOf(c.shake_max_pixels * Mul(ImpactOf(a, b), c.shake_intensity))
        shakes == OpsNamed(calls[1][1].out, "shake")
    IN  (c.shake_enabled /\ a >= 0 /\ a <= Unit /\ b >= 0 /\ b <= Unit) =>
          /\ shakes # {} <=> own >= 1
          /\ \A op \in shakes : Abs(op[2]) <= own /\ Abs(op[3]) <= own

---------------------------------------------------------------------------
(* Claims C21 to C23: smoothing state, vignette cache, motion blur         *)

\* the keys of the smoothing state other than the two shake offsets
SmoothedKeys == {"scale", "saturation", "contrast", "brightness", "hue", "glow",
                 "chromatic", "vignette"}

\* the smoothing constant each step passes to _smooth_value
Alpha(key) ==
  CASE key \in {"scale", "glow", "chromatic"} -> 400
    [] key \in {"shake_x", "shake_y"} -> 500
    [] key \in {"saturation", "contrast", "brightness"} -> 350
    [] OTHER -> 300

\* the target a step computes for its key from overall level a and impact imp
TargetOf(c, key, a, imp) ==
  CASE key = "scale" -> Lerp(c.scale_min, c.scale_max, Mul(imp, c.scale_intensity))
    [] key = "saturation" ->
         Lerp(c.saturation_min, c.saturation_max, Mul(a, c.saturation_intensity))
    [] key = "contrast" -> Lerp(c.contrast_min, c.contrast_max, Mul(a, c.contrast_intensity))
    [] key = "brightness" ->
         Lerp(c.brightness_min, c.brightness_max, Mul(imp, c.brightness_intensity))
    [] key = "hue" -> Lerp(0, c.hue_max_shift, Mul(a, c.hue_intensity))
    [] key = "glow" ->
         Unit * IntOf(Lerp(c.glow_radius_min * Unit, c.glow_radius_max * Unit,
                           Mul(imp, c.glow_intensity)))
    [] key = "chromatic" ->
         Unit * IntOf(Lerp(0, c.chromatic_max_offset * Unit, Mul(imp, c.chromatic_intensity)))
    [] key = "vignette" ->
         Lerp(c.vignette_min, c.vignette_max, Mul(Unit - a, c.vignette_intensity))

\* the enabled flag of the effect that owns a key
KeyEnabled(c, key) ==
  CASE key = "scale" -> c.scale_enabled
    [] key = "saturation" -> c.saturation_enabled
    [] key = "contrast" -> c.contrast_enabled
    [] key = "brightness" -> c.brightness_enabled
    [] key = "hue" -> c.hue_enabled
    [] key = "glow" -> c.glow_enabled
    [] key = "chromatic" -> c.chromatic_enabled
    [] key = "vignette" -> c.vignette_enabled
    [] OTHER -> c.shake_enabled

\* the smoothing state before call k of session s
PrevBefore(s, k) == IF k = 1 THEN <<>> ELSE calls[s][k - 1].prev

\* key holds lerp(previous, target, alpha) after call k, the previous value
\* being the target itself when the key was absent
SmoothedStep(s, k, key, target) ==
  LET before == PrevBefore(s, k)
      after == calls[s][k].prev
      old == IF key \in DOMAIN before THEN before[key] ELSE target
  IN  /\ key \in DOMAIN after
      /\ after[key] = Lerp(old, target, Alpha(key))

\* key is as it was before call k
KeyUntouched(s, k, key) ==
  LET before == PrevBefore(s, k)
      after == calls[s][k].prev
  IN  /\ key \in DOMAIN after <=> key \in DOMAIN before
      /\ key \in DOMAIN after => after[key] = before[key]

\* C21 as stated: after every frame every enabled effect, warp and motion
\* blur included, has its smoothed value in the smoothing state.
C21_Original ==
  \A k \in 1..Len(calls[1]) :
    LET c == sessions[1].config
        after == calls[1][k].prev
    IN  /\ \A key \in SmoothedKeys : KeyEnabled(c, key) => key \in DOMAIN after
        /\ c.shake_enabled => {"shake_x", "shake_y"} \subseteq DOMAIN after
        /\ c.warp_enabled => "warp" \in DOMAIN after
        /\ c.blur_enabled => "blur" \in DOMAIN after

\* C21, amended: on each frame scale, saturation, contrast, brightness, hue
\* shift, glow radius, chromatic offset and vignette strength of an enabled
\* effect are set to lerp(previous, target, alpha) with alpha 0.4, 0.35,
\* 0.35, 0.35, 0.3, 0.4, 0.4 and 0.3, the value stored being the value the
\* step used; the two shake offsets are smoothed with alpha 0.5 only on
\* frames whose shake range is at least one pixel and are left as they were
\* on the others; a disabled effect leaves its key alone; warp strength and
\* motion-blur radius are never stored: they follow the current frame only.
C21_SmoothedEveryFrame ==
  \A k \in 1..Len(calls[1]) :
    LET c == sessions[1].config
        call == calls[1][k]
        a == call.audio_level
        imp == ImpactOf(a, call.bass_level)
        shake_max == IntOf(c.shake_max_pixels * Mul(imp, c.scale_intensity))
        rng0 == RandomSeed(call.frame_idx)
    IN  /\ \A key \in SmoothedKeys :
             IF KeyEnabled(c, key)
               THEN SmoothedStep(1, k, key, TargetOf(c, key, a, imp))
               ELSE KeyUntouched(1, k, key)
        /\ IF c.shake_enabled /\ shake_max >= 1
             THEN /\ SmoothedStep(1, k, "shake_x",
                                  Unit * RandInt(rng0, 0 - shake_max, shake_max + 1))
                  /\ SmoothedStep(1, k, "shake_y",
                                  Unit * RandInt(RandomAdvance(rng0), 0 - shake_max, shake_max + 1))
             ELSE KeyUntouched(1, k, "shake_x") /\ KeyUntouched(1, k, "shake_y")
        /\ DOMAIN call.prev \subseteq SmoothedKeys \cup {"shake_x", "shake_y"}
        /\ c.saturation_enabled =>
             <<"saturation", call.prev["saturation"], 0>> \in OpsNamed(call.out, "saturation")
        /\ c.brightness_enabled =>
             <<"brightness", call.prev["brightness"], 0>> \in OpsNamed(call.out, "brightness")

\* C21 witness: a second frame whose scale lies strictly between the first
\* frame's scale and its own target, on a chain with motion blur enabled
C21_Witness ==
  /\ Len(calls[1]) = 2
  /\ LET c == sessions[1].config
         call == calls[1][2]
         target == TargetOf(c, "scale", call.audio_level,
                            ImpactOf(call.audio_level, call.bass_level))
     IN  /\ c.scale_enabled /\ c.blur_enabled /\ c.shake_enabled
         /\ calls[1][1].prev["scale"] < call.prev["scale"]
         /\ call.prev["scale"] < target
         /\ OpsNamed(call.out, "blur") # {}

\* the calls of session 1 that reached _get_vignette_mask (strength >= 0.05)
MaskCalls ==
  {k \in 1..Len(calls[1]) :
     sessions[1].config.vignette_enabled /\ calls[1][k].prev["vignette"] >= 50}

\* the strength of the first call that asked for the mask of this key
FirstStrength(key) ==
  LET same == {k \in MaskCalls : VignetteKey(calls[1][k].prev["vignette"]) = key}
      first == CHOOSE j \in same : \A i \in same : j <= i
  IN  calls[1][first].prev["vignette"]

\* C22: the vignette mask cache is keyed by the strength rounded to two
\* decimals; the mask of a key is the one drawn for the first strength that
\* rounded to it, every later frame with the same rounded strength is
\* composed with that same mask, the cache holds exactly the keys asked for
\* so far, and strengths in [0,1] have keys in 0.00..1.00, at most 101.
C22_MaskCache ==
  LET cache == sessions[1].cache
  IN  /\ DOMAIN cache = {VignetteKey(calls[1][k].prev["vignette"]) : k \in MaskCalls}
      /\ \A key \in DOMAIN cache : cache[key] = FirstStrength(key)
      /\ \A k \in 1..Len(calls[1]) :
           OpsNamed(calls[1][k].out, "vignette") =
             IF k \in MaskCalls
               THEN {<<"vignette", FirstStrength(VignetteKey(calls[1][k].prev["vignette"])), 0>>}
               ELSE {}
      /\ Cardinality({VignetteKey(strength) : strength \in 0..Unit}) <= 101

\* C22 witness: two frames whose strengths differ but round to the same key:
\* one cache entry, and the second frame is composed with the first's mask
C22_Witness ==
  /\ Len(calls[1]) = 2 /\ MaskCalls = {1, 2}
  /\ calls[1][1].prev["vignette"] # calls[1][2].prev["vignette"]
  /\ Cardinality(DOMAIN sessions[1].cache) = 1
  /\ OpsNamed(calls[1][2].out, "vignette") = {<<"vignette", calls[1][1].prev["vignette"], 0>>}

\* (impact - 0.6) / 0.4 * blur_intensity
BlurIntensity(c, imp) == Mul(((imp - 600) * Unit) \div 400, c.blur_intensity)

\* C23: motion blur acts on peaks only.  In every call on a chain with motion
\* blur enabled: with impact at or below 0.6 the image has no blur; with
\* impact above 0.6 the blur intensity (impact - 0.6) / 0.4 * blur_intensity
\* lies in [0,1] and the radius int(lerp(0, blur_max_radius, intensity)) lies
\* in 0..blur_max_radius, and the image is blurred once with that radius
\* when it is at least 1 and not at all otherwise.  In the last call the
\* blur step changed nothing but that.
C23_BlurOnPeaks ==
  LET c == sessions[1].config
  IN  c.blur_enabled =>
        /\ \A k \in 1..Len(calls[1]) :
             LET imp == ImpactOf(calls[1][k].audio_level, calls[1][k].bass_level)
                 intensity == BlurIntensity(c, imp)
                 radius == IntOf(Lerp(0, c.blur_max_radius * Unit, intensity))
                 blurs == OpsNamed(calls[1][k].out, "blur")
             IN  IF imp <= 600 THEN blurs = {}
                 ELSE /\ intensity >= 0 /\ intensity <= Unit
                      /\ radius >= 0 /\ radius <= c.blur_max_radius
                      /\ blurs = IF radius >= 1 THEN {<<"blur", radius, 0>>} ELSE {}
        /\ calls[1] # <<>> =>
             /\ steps[1][11].size = steps[1][10].size
             /\ OpsNamed(calls[1][Len(calls[1])].out, "blur") = {} => steps[1][11] = steps[1][10]
             /\ StepOf(steps[1][10], steps[1][11], "blur")

\* C23 witness: a frame with impact exactly 0.6 left unblurred, followed by
\* a frame above the threshold that was blurred
C23_Witness ==
  /\ Len(calls[1]) = 2 /\ sessions[1].config.blur_enabled
  /\ ImpactOf(calls[1][1].audio_level, calls[1][1].bass_level) = 600
  /\ OpsNamed(calls[1][1].out, "blur") = {}
  /\ OpsNamed(calls[1][2].out, "blur") # {}
  /\ steps[1][11] # steps[1][10]

---------------------------------------------------------------------------
(* Claims C24 to C26: hop length, length correction, band masks            *)

\* round(a / b) for positive a and b (halves go up)
RoundDiv(a, b) == (2 * a + b) \div (2 * b)

\* C24 as stated: the features of a loaded track were extracted with hop
\* length round(sample_rate / fps): window k starts within half a sample per
\* frame of video frame k, that is |hop * fps - sample_rate| <= fps / 2, and
\* the track was cut into 1 + n div round(sample_rate / fps) windows.
C24_Original ==
  features # <<>> =>
    /\ HopLength(sr, fps) = RoundDiv(sr, fps)
    /\ 2 * Abs(HopLength(sr, fps) * fps - sr) <= fps
    /\ Len(file.stft) = StftFrames(file.n, RoundDiv(sr, fps))

\* out is data cut or padded to count entries: the first count entries when
\* data is longer, data followed by zeros when shorter, data itself when equal
CutOrPadded(data, count, out) ==
  /\ Len(out) = count
  /\ Len(data) >= count => out = SubSeq(data, 1, count)
  /\ Len(data) < count =>
       /\ SubSeq(out, 1, Len(data)) = data
       /\ \A j \in (Len(data) + 1)..count : out[j] = 0
  /\ Len(data) = count => out = data

\* C25: _adjust_length returns exactly frame_count entries for every input:
\* the first frame_count entries of a longer input, a shorter input followed
\* by zeros only, an input of that length unchanged; and each envelope of
\* extract_features is _adjust_length of the band's normalised, smoothed and
\* curved energies.
C25_ExactLength ==
  /\ \A i \in 1..Len(adjusted) :
       /\ adjusted[i].count = frame_count
       /\ CutOrPadded(adjusted[i].data, adjusted[i].count, adjusted[i].out)
  /\ features # <<>> =>
       \A band \in Bands :
         CutOrPadded(NormalizeAndSmooth(RawEnergy(band)), frame_count, Envelope(band))

\* C25 witness: a two-entry array padded to a frame_count of three
C25_Witness ==
  /\ adjusted # <<>> /\ frame_count = 3
  /\ Len(adjusted[1].data) = 2
  /\ adjusted[1].out = adjusted[1].data \o <<0>>
  /\ features # <<>>

\* the bands bin k belongs to at the given sample rate
BandsOf(k, rate) ==
  {band \in {"bass", "mid", "high"} :
     CASE band = "bass" -> BassMask(k, rate)
       [] band = "mid" -> MidMask(k, rate)
       [] OTHER -> HighMask(k, rate)}

\* C26: the three band masks partition the frequency bins: every bin is in
\* exactly one of bass, mid and high, a bin centred on 250 Hz is mid and one
\* centred on 2000 Hz is high, and in every analysis window the raw overall
\* energy is the sum of the raw bass, mid and high energies.
C26_BandsPartition ==
  features # <<>> =>
    /\ \A k \in SampleBins :
         /\ Cardinality(BandsOf(k, sr)) = 1
         /\ k * sr = 250 * N_FFT => BandsOf(k, sr) = {"mid"}
         /\ k * sr = 2000 * N_FFT => BandsOf(k, sr) = {"high"}
         /\ k * sr < 250 * N_FFT => BandsOf(k, sr) = {"bass"}
    /\ \A w \in 1..Len(file.stft) :
         RawEnergy("overall")[w] =
           RawEnergy("bass")[w] + RawEnergy("mid")[w] + RawEnergy("high")[w]

\* C26 witness: an 8 kHz track, whose bin 64 is centred on 250 Hz exactly,
\* with a window whose energy is all in that bin: it counts as mid, not bass
C26_Witness ==
  /\ features # <<>> /\ sr = 8000
  /\ 64 * sr = 250 * N_FFT /\ 512 * sr = 2000 * N_FFT
  /\ \E w \in 1..Len(file.stft) :
       /\ file.stft[w][64] > 0
       /\ RawEnergy("bass")[w] = 0
       /\ RawEnergy("mid")[w] = RawEnergy("overall")[w]
       /\ RawEnergy("mid")[w] > 0

---------------------------------------------------------------------------
(* Claims C27 and C28: the GUI's render threads and progress queue         *)

\* the threads that have not run to their end
LiveThreads == {t \in 1..Len(ui.threads) : ui.threads[t].pc # "done"}

\* the 'complete' and 'error' messages in a sequence of messages
Terminals(msgs) == {j \in 1..Len(msgs) : msgs[j][1] \in {"complete", "error"}}

\* C27: at most one render thread is running at any time; while one is
\* running is_rendering is true and the generate button is disabled;
\* is_rendering is true exactly from the start of a thread until
\* _check_progress has handled that thread's 'complete' or 'error' message,
\* so a click in between starts nothing.
C27_OneRenderThread ==
  /\ Cardinality(LiveThreads) <= 1
  /\ LiveThreads # {} => ui.is_rendering /\ ui.button = "disabled"
  /\ LiveThreads \subseteq {Len(ui.threads)}
  /\ Len(ui.threads) <= ui.clicks
  /\ Cardinality(Terminals(ui.applied)) =
       IF ui.is_rendering THEN Len(ui.threads) - 1 ELSE Len(ui.threads)
  /\ ui.is_rendering <=> ui.button = "disabled"

\* C27 witness: a click arrived while a thread was rendering and started
\* nothing
C27_Witness ==
  /\ Len(ui.threads) = 1 /\ ui.clicks = 2
  /\ ui.threads[1].pc = "frame" /\ ui.threads[1].i > 0
  /\ ui.is_rendering

\* the positions in msgs of the messages of thread t
MessagesOf(msgs, t) == {j \in 1..Len(msgs) : msgs[j][2] = t}

\* every thread that ended put exactly one terminal message, its last; a
\* thread still running has put none; the queue is first in, first out; and
\* nothing of a run is handled after its terminal message
TerminalLast ==
  /\ \A t \in 1..Len(ui.threads) :
       LET mine == MessagesOf(ui.put, t)
           ends == mine \cap Terminals(ui.put)
       IN  IF ui.threads[t].pc = "done"
             THEN /\ Cardinality(ends) = 1
                  /\ \A j \in mine : \A e \in ends : j <= e
             ELSE ends = {}
  /\ ui.applied \o ui.queue = ui.put
  /\ \A e \in Terminals(ui.applied) :
       \A j \in MessagesOf(ui.applied, ui.applied[e][2]) : j <= e

---------------------------------------------------------------------------
(* Claims C29 and C30: a replaced configuration, a property's first frame  *)

\* the chain state after process_frame call k of session 1, replayed from a
\* chain in state st that has made the calls before `from`
RECURSIVE Replay(_, _, _)
Replay(st, from, k) ==
  IF k < from THEN st
  ELSE LET before == Replay(st, from, k - 1)
           run == ProcessFrameSteps(
                    [before EXCEPT !.img = BaseImage(st.width, st.height)],
                    calls[1][k].audio_level, calls[1][k].bass_level, calls[1][k].frame_idx)
       IN  run[Len(run)]

\* C29: after set_effect_config the renderer works with a fresh chain: right
\* after the call the smoothing state and the mask cache are empty, the
\* config in use is the one passed and the resolution is what it was; and
\* every frame rendered since is the frame a newly built chain with that
\* config would have rendered from the same calls, so nothing smoothed under
\* the old config reaches it.
C29_FreshChain ==
  LET se == sessions[1]
  IN  se.reconf # <<>> =>
        LET rc == se.reconf[Len(se.reconf)]
            fresh == [config |-> rc.config, width |-> rc.size[1], height |-> rc.size[2],
                      prev |-> <<>>, cache |-> <<>>, rng |-> 0,
                      img |-> BaseImage(rc.size[1], rc.size[2])]
        IN  /\ se.config = rc.config
            /\ <<se.width, se.height>> = rc.size
            /\ Len(calls[1]) = rc.at => se.prev = <<>> /\ se.cache = <<>>
            /\ \A k \in (rc.at + 1)..Len(calls[1]) :
                 LET st == Replay(fresh, rc.at + 1, k)
                 IN  /\ calls[1][k].out = st.img
                     /\ calls[1][k].prev = st.prev
                     /\ calls[1][k].out.size = calls[1][1].out.size
            /\ Len(calls[1]) > rc.at => se.prev = calls[1][Len(calls[1])].prev

\* C29 witness: a frame was rendered, the config was replaced, and the next
\* frame's scale is its target and not a step from the old chain's scale
C29_Witness ==
  LET se == sessions[1]
  IN  /\ se.reconf # <<>> /\ se.reconf[1].at = 1 /\ Len(calls[1]) = 2
      /\ "scale" \in DOMAIN calls[1][1].prev /\ "scale" \in DOMAIN calls[1][2].prev
      /\ LET target == TargetOf(se.config, "scale", calls[1][2].audio_level,
                                ImpactOf(calls[1][2].audio_level, calls[1][2].bass_level))
         IN  /\ calls[1][2].prev["scale"] = target
             /\ target # Lerp(calls[1][1].prev["scale"], target, Alpha("scale"))

\* the target of key in call k of session 1: the value the step hands to
\* _smooth_value
CallTarget(k, key) ==
  LET c == sessions[1].config
      call == calls[1][k]
      imp == ImpactOf(call.audio_level, call.bass_level)
      shake_max == IntOf(c.shake_max_pixels * Mul(imp, c.scale_intensity))
      rng0 == RandomSeed(call.frame_idx)
  IN  CASE key = "shake_x" -> Unit * RandInt(rng0, 0 - shake_max, shake_max + 1)
        [] key = "shake_y" ->
             Unit * RandInt(RandomAdvance(rng0), 0 - shake_max, shake_max + 1)
        [] OTHER -> TargetOf(c, key, call.audio_level, imp)

\* C30: the first time a chain evaluates a smoothed property (its key is not
\* yet in the smoothing state) the value emitted and stored is exactly the
\* target; a key once stored stays in the smoothing state in every later
\* frame; and the key of a disabled effect is never stored.
C30_FirstFrameNoLag ==
  \A k \in 1..Len(calls[1]) :
    \A key \in SmoothedKeys \cup {"shake_x", "shake_y"} :
      LET before == PrevBefore(1, k)
          after == calls[1][k].prev
      IN  /\ key \in DOMAIN before => key \in DOMAIN after
          /\ (key \notin DOMAIN before /\ key \in DOMAIN after) =>
               after[key] = CallTarget(k, key)
          /\ ~KeyEnabled(sessions[1].config, key) => key \notin DOMAIN after

\* C30 witness: the shake offset is first evaluated on the second frame and
\* is its target there, while the scale, first evaluated on the first frame,
\* lags behind its target on the second
C30_Witness ==
  /\ Len(calls[1]) = 2
  /\ "shake_x" \notin DOMAIN calls[1][1].prev
  /\ "shake_x" \in DOMAIN calls[1][2].prev
  /\ calls[1][2].prev["shake_x"] = CallTarget(2, "shake_x")
  /\ calls[1][2].prev["shake_x"] # 0
  /\ "scale" \in DOMAIN calls[1][1].prev
  /\ calls[1][2].prev["scale"] # CallTarget(2, "scale")
=============================================================================
